---- MODULE Spec2Model ----
(***************************************************************************)
(* Model of the devicetree compiler scripts/dts_gen.py: the description    *)
(* parser's node collection, resolve_phandles_and_assign_ids,              *)
(* calculate_resource_counts and the artifact-writing stages of main.      *)
(*                                                                         *)
(* pc is main's position, nodes the node collection (mutated in place by   *)
(* the resolver and by generate_source), parsed the collection as the      *)
(* parser returned it, counts the resource counts, files the artifacts     *)
(* written to the output directory, contents what each artifact holds,     *)
(* platform the --platform option as the backend stage reads it,           *)
(* exit_code the process exit status.  On the --expand-eds path            *)
(* description is the sequence of CANopen device nodes of the input text,  *)
(* expanded the same sequence as expand_eds_references rewrites it, and    *)
(* warnings the labels of the nodes it warned about.                       *)
(*                                                                         *)
(* A node is a record [label, compatible, properties, signal_id].  Labels  *)
(* are natural numbers (the n-th parsed node carries label n).  A property *)
(* value is a tagged record, because the code decides by isinstance():     *)
(*   [k |-> "int",  n |-> 5, items |-> <<>>]    an integer                 *)
(*   [k |-> "str",  n |-> 2, items |-> <<>>]    a phandle: the label 2     *)
(*   [k |-> "list", n |-> 0, items |-> <<...>>] a list of such scalars     *)
(* The attribute node.signal_id is None (here -1) until it is assigned.    *)
(***************************************************************************)
EXTENDS Integers, Sequences, FiniteSets, TLC

VARIABLES pc, parsed, nodes, counts, files, contents, platform, exit_code,
          description, expanded, warnings, prior, testdts, runner, harness,
          dts_content

\* The state of the --expand-eds path.
edsvars == <<description, expanded, warnings>>

\* The test harness: the compiled test_runner.c (runner) and the state of
\* the process that runs it (harness).
runvars == <<runner, harness>>

\* What a pipeline step of main leaves alone: the --expand-eds path, the
\* record of an earlier compile of the same description (prior), the test
\* harness and the characters of the input file (dts_content).
sidevars == <<edsvars, prior, runvars, dts_content>>

vars == <<pc, parsed, nodes, counts, files, contents, platform, exit_code,
          sidevars, testdts>>

(***************************************************************************)
(* Bounds of the model.                                                    *)
(***************************************************************************)
MaxNodes == 3

MaxExplicitId == 2

MaxRefNodes == 2

MaxOutNodes == 9

MaxGenNodes == 3

MaxStubs == 2

MaxNumMapped == 9

(***************************************************************************)
(* Values.                                                                 *)
(***************************************************************************)
None == -1

IntV(n) == [k |-> "int", n |-> n, items |-> <<>>]

StrV(l) == [k |-> "str", n |-> l, items |-> <<>>]

ListV(s) == [k |-> "list", n |-> 0, items |-> s]

IntE(n) == [k |-> "int", n |-> n]

StrE(l) == [k |-> "str", n |-> l]

NoProps == [p \in {} |-> IntV(0)]

Max(a, b) == IF a >= b THEN a ELSE b

RECURSIVE SetMax(_)
SetMax(S) ==
    IF S = {} THEN 0
    ELSE LET x == CHOOSE y \in S : TRUE
         IN  Max(x, SetMax(S \ {x}))

SetProp(props, name, val) ==
    [p \in (DOMAIN props) \cup {name} |-> IF p = name THEN val ELSE props[p]]

DTSNode(label, compatible) ==
    [label |-> label, compatible |-> compatible, properties |-> NoProps,
     signal_id |-> None]

(***************************************************************************)
(* Declared types.  The code tests compatible.startswith('lq,hw-'); the    *)
(* model lists the hardware-input type strings the repository uses, and    *)
(* one more string with that prefix, which no equality test names (an ADC  *)
(* read over SPI).                                                          *)
(***************************************************************************)
HwCompatibles ==
    {"lq,hw-adc-input", "lq,hw-spi-input", "lq,hw-gpio-input",
     "lq,hw-can-input", "lq,hw-uart-input", "lq,hw-i2c-input",
     "lq,hw-sensor-input", "lq,hw-spi-adc-input"}

IsHwInput(compatible) == compatible \in HwCompatibles

\* word in compatible, for the type names of this model.
CompatibleHas(compatible, word) ==
    CASE word = "adc"   ->
            compatible \in {"lq,hw-adc-input", "lq,hw-spi-adc-input"}
      [] word = "spi"   ->
            compatible \in {"lq,hw-spi-input", "lq,hw-spi-adc-input"}
      [] word = "can"   -> compatible \in {"lq,hw-can-input"}
      [] word = "merge" -> compatible \in {"lq,mid-merge"}
      [] word = "fault-monitor" -> compatible \in {"lq,fault-monitor"}
      [] word = "cyclic-output" -> compatible \in {"lq,cyclic-output"}
      [] word = "hw-adc-input"  -> compatible \in {"lq,hw-adc-input"}
      [] word = "hw-spi-input"  -> compatible \in {"lq,hw-spi-input"}
      [] word = "mid-merge"     -> compatible \in {"lq,mid-merge"}
      [] OTHER -> FALSE

ProcessingCompatibles == {"lq,scale", "lq,remap", "lq,pid", "lq,mid-merge"}

(***************************************************************************)
(* resolve_phandles_and_assign_ids, first pass: identity assignment.       *)
(***************************************************************************)
\* Mutant: an explicit identity does not move the allocation counter.
CounterAfterExplicit_NoAdvance(signal_id, explicit) == signal_id

\* signal_id = max(signal_id, node.signal_id + 1)
CounterAfterExplicit(signal_id, explicit) == Max(signal_id, explicit + 1)

\* Mutant: the counter is not incremented after an automatic assignment.
CounterAfterAuto_NoIncrement(signal_id) == signal_id

\* signal_id += 1
CounterAfterAuto(signal_id) == signal_id + 1

RECURSIVE AssignFrom(_, _, _)
AssignFrom(ns, i, signal_id) ==
    IF i > Len(ns) THEN ns
    ELSE LET node == ns[i]
             props == node.properties
         IN  IF "signal_id" \in DOMAIN props
             THEN AssignFrom(
                    [ns EXCEPT ![i].signal_id = props["signal_id"].n],
                    i + 1,
                    CounterAfterExplicit(signal_id, props["signal_id"].n))
             ELSE IF IsHwInput(node.compatible)
                     \/ node.compatible \in ProcessingCompatibles
             THEN AssignFrom(
                    [ns EXCEPT ![i].signal_id = signal_id,
                               ![i].properties =
                                   SetProp(props, "signal_id", IntV(signal_id))],
                    i + 1,
                    CounterAfterAuto(signal_id))
             ELSE IF node.compatible = "lq,fault-monitor"
                     /\ "fault_output_signal_id" \notin DOMAIN props
             THEN AssignFrom(
                    [ns EXCEPT ![i].signal_id = signal_id,
                               ![i].properties =
                                   SetProp(props, "fault_output_signal_id",
                                           IntV(signal_id))],
                    i + 1,
                    CounterAfterAuto(signal_id))
             ELSE AssignFrom(ns, i + 1, signal_id)

AssignIds(ns) ==
    AssignFrom([i \in DOMAIN ns |-> [ns[i] EXCEPT !.signal_id = None]], 1, 0)

(***************************************************************************)
(* resolve_phandles_and_assign_ids, second pass: reference resolution.     *)
(* label_map = {node.label: node for node in nodes}: a later node with the *)
(* same label replaces an earlier one.                                     *)
(***************************************************************************)
LabelsOf(ns) == {ns[i].label : i \in DOMAIN ns}

label_map(ns, l) ==
    ns[CHOOSE i \in DOMAIN ns :
         /\ ns[i].label = l
         /\ \A j \in DOMAIN ns : ns[j].label = l => j <= i]

\* isinstance(ref, str) and ref in label_map and
\* label_map[ref].signal_id is not None
Resolvable(ns, ref) ==
    /\ ref.k = "str"
    /\ ref.n \in LabelsOf(ns)
    /\ label_map(ns, ref.n).signal_id # None

\* Mutant: a reference resolves to the position of its target, not to the
\* identity the target was assigned.
TargetSignalId_NodeIndex(ns, ref) ==
    CHOOSE i \in DOMAIN ns : ns[i].label = ref.n

TargetSignalId(ns, ref) == label_map(ns, ref.n).signal_id

\* Mutant: the backward-compatible branch for the legacy name is missing.
ResolveSingle_UnifiedOnly(ns, props, unified, canonical) ==
    IF unified \in DOMAIN props /\ Resolvable(ns, props[unified])
    THEN SetProp(props, canonical, IntV(TargetSignalId(ns, props[unified])))
    ELSE props

\* One "if <unified> ... elif <legacy> ..." block for a single reference;
\* the legacy property name is the canonical resolved-property name.
ResolveSingle(ns, props, unified, canonical) ==
    IF unified \in DOMAIN props
    THEN IF Resolvable(ns, props[unified])
         THEN SetProp(props, canonical, IntV(TargetSignalId(ns, props[unified])))
         ELSE props
    ELSE IF canonical \in DOMAIN props
    THEN IF Resolvable(ns, props[canonical])
         THEN SetProp(props, canonical, IntV(TargetSignalId(ns, props[canonical])))
         ELSE props
    ELSE props

\* refs = node.properties[...]; if not isinstance(refs, list): refs = [refs]
AsRefList(v) == IF v.k = "list" THEN v.items ELSE <<[k |-> v.k, n |-> v.n]>>

RECURSIVE CollectIds(_, _, _)
CollectIds(ns, refs, i) ==
    IF i > Len(refs) THEN <<>>
    ELSE LET ref == refs[i]
             rest == CollectIds(ns, refs, i + 1)
         IN  IF ref.k = "str" /\ ref.n \in LabelsOf(ns)
             THEN IF label_map(ns, ref.n).signal_id # None
                  THEN <<IntE(TargetSignalId(ns, ref))>> \o rest
                  ELSE rest
             ELSE IF ref.k = "int"
             THEN <<IntE(ref.n)>> \o rest
             ELSE rest

ResolveList(ns, props) ==
    IF "sources" \in DOMAIN props
    THEN SetProp(props, "input_signal_ids",
                 ListV(CollectIds(ns, AsRefList(props["sources"]), 1)))
    ELSE IF "input_signal_ids" \in DOMAIN props
    THEN SetProp(props, "input_signal_ids",
                 ListV(CollectIds(ns, AsRefList(props["input_signal_ids"]), 1)))
    ELSE props

ResolveNode(ns, node) ==
    LET p1 == ResolveSingle(ns, node.properties, "source", "source_signal")
        p2 == ResolveList(ns, p1)
        p3 == ResolveSingle(ns, p2, "input", "input_signal")
        p4 == ResolveSingle(ns, p3, "output", "output_signal")
    IN  [node EXCEPT !.properties = p4]

resolve_phandles_and_assign_ids(ns) ==
    LET assigned == AssignIds(ns)
    IN  [i \in DOMAIN assigned |-> ResolveNode(assigned, assigned[i])]

(***************************************************************************)
(* calculate_resource_counts.                                              *)
(***************************************************************************)
DefaultRingbufferSize == 128

MinOutputEvents == 16

ZeroCounts ==
    [num_signals |-> 0, num_hw_inputs |-> 0, num_scales |-> 0,
     num_remaps |-> 0, num_merges |-> 0, num_fault_monitors |-> 0,
     num_cyclic_outputs |-> 0, num_pid_controllers |-> 0,
     num_verified_outputs |-> 0, max_merge_inputs |-> 0,
     max_output_events |-> 0, hw_ringbuffer_size |-> DefaultRingbufferSize]

\* input_ids = node.properties.get('input_signal_ids', []);
\* if isinstance(input_ids, int): input_ids = [input_ids]; len(input_ids)
MergeInputCount(props) ==
    IF "input_signal_ids" \notin DOMAIN props THEN 0
    ELSE IF props["input_signal_ids"].k = "list"
    THEN Len(props["input_signal_ids"].items)
    ELSE 1

\* Mutant: only the long type name counts as a PID controller.
IsPidController_LongNameOnly(compatible) == compatible = "lq,pid-controller"

IsPidController(compatible) ==
    compatible = "lq,pid" \/ compatible = "lq,pid-controller"

\* The if/elif chain that counts one node by its declared type.
CountNode(c, node) ==
    IF IsHwInput(node.compatible)
    THEN [c EXCEPT !.num_hw_inputs = @ + 1]
    ELSE IF node.compatible = "lq-scale" \/ node.compatible = "lq,scale"
    THEN [c EXCEPT !.num_scales = @ + 1]
    ELSE IF node.compatible = "lq,remap"
    THEN [c EXCEPT !.num_remaps = @ + 1]
    ELSE IF node.compatible = "lq,mid-merge"
    THEN [c EXCEPT !.num_merges = @ + 1,
                   !.max_merge_inputs = Max(@, MergeInputCount(node.properties))]
    ELSE IF node.compatible = "lq,fault-monitor"
    THEN [c EXCEPT !.num_fault_monitors = @ + 1]
    ELSE IF node.compatible = "lq,cyclic-output"
    THEN [c EXCEPT !.num_cyclic_outputs = @ + 1]
    ELSE IF IsPidController(node.compatible)
    THEN [c EXCEPT !.num_pid_controllers = @ + 1]
    ELSE IF node.compatible = "lq,verified-output"
    THEN [c EXCEPT !.num_verified_outputs = @ + 1]
    ELSE c

RECURSIVE CountFrom(_, _, _)
CountFrom(ns, i, c) ==
    IF i > Len(ns) THEN c ELSE CountFrom(ns, i + 1, CountNode(c, ns[i]))

IdProps == <<"signal_id", "output_signal_id", "fault_output_signal_id">>

RECURSIVE MaxIdProp(_, _, _)
MaxIdProp(props, j, m) ==
    IF j > Len(IdProps) THEN m
    ELSE MaxIdProp(props, j + 1,
                   IF IdProps[j] \in DOMAIN props
                   THEN Max(m, props[IdProps[j]].n) ELSE m)

RECURSIVE MaxSignalIdFrom(_, _, _)
MaxSignalIdFrom(ns, i, m) ==
    IF i > Len(ns) THEN m
    ELSE LET m1 == IF ns[i].signal_id # None THEN Max(m, ns[i].signal_id) ELSE m
         IN  MaxSignalIdFrom(ns, i + 1, MaxIdProp(ns[i].properties, 1, m1))

\* Mutant: the count is the maximum identity itself.
NumSignals_NoPlusOne(ns) == MaxSignalIdFrom(ns, 1, 0)

NumSignals(ns) == MaxSignalIdFrom(ns, 1, 0) + 1

\* Mutant: the floor of 16 is missing.
MaxOutputEvents_NoFloor(num_cyclic_outputs) == num_cyclic_outputs * 2

MaxOutputEvents(num_cyclic_outputs) == Max(num_cyclic_outputs * 2, MinOutputEvents)

EngineOverride(ns, c) ==
    LET engines == {i \in DOMAIN ns : ns[i].compatible = "lq,engine"}
    IN  IF engines = {} THEN c
        ELSE LET eng == ns[CHOOSE i \in engines : \A j \in engines : i <= j]
             IN  IF "hw_ringbuffer_size" \in DOMAIN eng.properties
                 THEN [c EXCEPT !.hw_ringbuffer_size =
                                    eng.properties["hw_ringbuffer_size"].n]
                 ELSE c

calculate_resource_counts(ns) ==
    LET c1 == CountFrom(ns, 1, EngineOverride(ns, ZeroCounts))
        c2 == [c1 EXCEPT !.num_signals = NumSignals(ns)]
    IN  [c2 EXCEPT !.max_output_events = MaxOutputEvents(c2.num_cyclic_outputs)]

(***************************************************************************)
(* Inputs: the nodes simple_dts_parser can append, as (compatible,         *)
(* properties) shapes.                                                     *)
(***************************************************************************)
Shape(compatible, props) == [compatible |-> compatible, properties |-> props]

OneProp(name, val) == SetProp(NoProps, name, val)

ExplicitIds == 0 .. MaxExplicitId

\* Every declared type the resolver or the analyzer distinguishes, without
\* identity properties; and nodes that carry an explicit identity property.
IdShapes ==
    {Shape(c, NoProps) :
        c \in {"lq,hw-adc-input", "lq,scale", "lq-scale", "lq,remap", "lq,pid",
               "lq,pid-controller", "lq,mid-merge", "lq,fault-monitor",
               "lq,cyclic-output", "lq,verified-output", "lq,engine"}}
    \cup {Shape(c, OneProp("signal_id", IntV(n))) :
            c \in {"lq,hw-adc-input", "lq,fault-monitor", "lq,cyclic-output"},
            n \in ExplicitIds}
    \cup {Shape("lq,fault-monitor", OneProp("fault_output_signal_id", IntV(n))) :
            n \in ExplicitIds}
    \cup {Shape("lq,mid-merge", OneProp("output_signal_id", IntV(n))) :
            n \in ExplicitIds}

(***************************************************************************)
(* main: the pipeline stages.                                              *)
(***************************************************************************)
\* The --platform option left out (args.platform is None).
NoPlatform == "none"

NoSource ==
    [num_signals |-> 0, merges |-> <<>>, fault_monitors |-> <<>>,
     cyclic_outputs |-> <<>>, dispatch |-> {}, isrs |-> <<>>]

\* What the artifacts hold before any is written.
NoContents ==
    [config |-> ZeroCounts, header |-> <<>>, header_wakes |-> <<>>,
     source |-> NoSource, source_wakes |-> <<>>, platform |-> <<>>,
     init |-> {}]

\* No earlier compile is on record.
NoPrior ==
    [run |-> 0, parsed |-> <<>>, platform |-> NoPlatform, files |-> {},
     contents |-> NoContents, testdts |-> <<>>]

\* The counters of test_runner.c as the C runtime initialises them, before
\* main is entered.  test and stmt say where the process is: in the call of
\* the test-th test function, before its stmt-th statement.
HarnessNotStarted ==
    [pc |-> "idle", test |-> 0, stmt |-> 0, result |-> TRUE,
     tests_run |-> 0, tests_passed |-> 0, tests_failed |-> 0,
     executed |-> <<>>, status |-> None]

Init ==
    /\ pc = "start"
    /\ parsed = <<>>
    /\ nodes = <<>>
    /\ counts = ZeroCounts
    /\ files = {}
    /\ contents = NoContents
    /\ platform = NoPlatform
    /\ exit_code = None
    /\ description = <<>>
    /\ expanded = <<>>
    /\ warnings = <<>>
    /\ prior = NoPrior
    /\ testdts = <<>>
    /\ runner = <<>>
    /\ harness = HarnessNotStarted
    /\ dts_content = <<>>

\* if not input_dts.exists(): sys.exit(1)
MissingInput ==
    /\ pc = "start"
    /\ pc' = "exit"
    /\ exit_code' = 1
    /\ UNCHANGED <<parsed, nodes, counts, files, contents, platform, sidevars,
                 testdts>>

ReadInput ==
    /\ pc = "start"
    /\ pc' = "parse"
    /\ UNCHANGED <<parsed, nodes, counts, files, contents, platform, exit_code,
                 sidevars,
                 testdts>>

\* One iteration of simple_dts_parser's loop over the matched nodes.
ParseNode(shapes, limit) ==
    /\ pc = "parse"
    /\ Len(nodes) < limit
    /\ \E sh \in shapes :
          nodes' = Append(nodes,
                          [DTSNode(Len(nodes) + 1, sh.compatible)
                              EXCEPT !.properties = sh.properties])
    /\ UNCHANGED <<pc, parsed, counts, files, contents, platform, exit_code,
                 sidevars,
                 testdts>>

Resolve ==
    /\ pc = "parse"
    /\ parsed' = nodes
    /\ nodes' = resolve_phandles_and_assign_ids(nodes)
    /\ pc' = "resolved"
    /\ UNCHANGED <<counts, files, contents, platform, exit_code, sidevars,
                 testdts>>

CalculateResourceCounts ==
    /\ pc = "resolved"
    /\ counts' = calculate_resource_counts(nodes)
    /\ pc' = "counted"
    /\ UNCHANGED <<parsed, nodes, files, contents, platform, exit_code, sidevars,
                 testdts>>

(***************************************************************************)
(* simple_dts_parser on the characters of the file.  The text after the    *)
(* root node's "/ {" is a sequence of brace tokens: the opening of a       *)
(* labelled node with the properties written after it, or a closing brace. *)
(* node_pattern matches at a labelled opening brace when what follows is   *)
(* any number of brace pairs and then a closing brace: the text of a pair  *)
(* becomes part of the content of the matched node.                        *)
(***************************************************************************)
OpenNode(sh) ==
    [open |-> TRUE, compatible |-> sh.compatible, properties |-> sh.properties]

CloseBrace == [open |-> FALSE, compatible |-> "", properties |-> NoProps]

\* The end of (?:\{[^{}]*\}[^{}]*)* from token q on: the index after the
\* last brace pair.
RECURSIVE SkipPairs(_, _)
SkipPairs(tokens, q) ==
    IF /\ q + 1 <= Len(tokens)
       /\ tokens[q].open
       /\ ~tokens[q + 1].open
    THEN SkipPairs(tokens, q + 2)
    ELSE q

\* The index of the closing brace that ends the match of node_pattern at
\* the opening brace p, or 0 when there is no match at p.
MatchEnd(tokens, p) ==
    LET q == SkipPairs(tokens, p + 1)
    IN  IF q <= Len(tokens) /\ ~tokens[q].open THEN q ELSE 0

\* The label written at the opening brace p: the node is the n-th one in
\* the text.
LabelAt(tokens, p) == Cardinality({i \in 1..p : tokens[i].open})

\* prop_pattern over the content: a later assignment of a name replaces
\* an earlier one.
RECURSIVE ContentProps(_, _, _)
ContentProps(tokens, p, last) ==
    IF p > last THEN NoProps
    ELSE LET rest == ContentProps(tokens, p + 1, last)
             own == IF tokens[p].open THEN tokens[p].properties ELSE NoProps
         IN  [name \in DOMAIN own \cup DOMAIN rest |->
                IF name \in DOMAIN rest THEN rest[name] ELSE own[name]]

\* for match in re.finditer(node_pattern, dts_content): ...
RECURSIVE ScanFrom(_, _)
ScanFrom(tokens, p) ==
    IF p > Len(tokens) THEN <<>>
    ELSE IF tokens[p].open /\ MatchEnd(tokens, p) # 0
    THEN <<[DTSNode(LabelAt(tokens, p), tokens[p].compatible)
               EXCEPT !.properties = ContentProps(tokens, p, MatchEnd(tokens, p))]>>
         \o ScanFrom(tokens, MatchEnd(tokens, p) + 1)
    ELSE ScanFrom(tokens, p + 1)

simple_dts_parser(tokens) == ScanFrom(tokens, 1)

MaxTokens == 5

TextShapes ==
    {Shape("lq,hw-adc-input", NoProps),
     Shape("lq,scale", OneProp("source", StrV(1)))}

\* One more brace of the input file, with the text up to the next one.
WriteToken ==
    /\ pc = "start"
    /\ Len(dts_content) < MaxTokens
    /\ \E token \in {OpenNode(sh) : sh \in TextShapes} \cup {CloseBrace} :
          dts_content' = Append(dts_content, token)
    /\ UNCHANGED <<pc, parsed, nodes, counts, files, contents, platform,
                   exit_code, edsvars, prior, runvars, testdts>>

\* with open(input_dts) as f: dts_content = f.read()
\* nodes = simple_dts_parser(dts_content)
ParseText ==
    /\ pc = "start"
    /\ nodes' = simple_dts_parser(dts_content)
    /\ pc' = "parse"
    /\ UNCHANGED <<parsed, counts, files, contents, platform, exit_code,
                   sidevars, testdts>>

\* The stages that follow the parse of a text.
ResolveText ==
    /\ dts_content # <<>>
    /\ Resolve


(***************************************************************************)
(* main: the artifact-writing stages.  generate_source also normalizes a   *)
(* generic lq,input / lq,output node whose device names a CAN device.      *)
(***************************************************************************)
\* Device names a generic node may carry, by index: NameV(d) is the string
\* DeviceNames[d].
DeviceNames == <<"can0", "can1", "uart0", "can">>

NameV(d) == [k |-> "name", n |-> d, items |-> <<>>]

\* 'can' in dev.lower()
IsCanDevice(d) == DeviceNames[d] \in {"can0", "can1", "can"}

\* re.search(r'can(\d+)', dev.lower()); int(match.group(1)) if match else 0
CanDeviceIndex(d) == IF DeviceNames[d] = "can1" THEN 1 ELSE 0

NormalizeGeneric(node) ==
    IF /\ node.compatible \in {"lq,input", "lq,output"}
       /\ "device" \in DOMAIN node.properties
       /\ node.properties["device"].k = "name"
       /\ IsCanDevice(node.properties["device"].n)
    THEN [node EXCEPT
            !.properties = SetProp(@, "device_index",
                                   IntV(CanDeviceIndex(node.properties["device"].n))),
            !.compatible = IF node.compatible = "lq,input"
                           THEN "lq,hw-can-input" ELSE "lq,cyclic-output"]
    ELSE node

\* node.properties.get(name, default)
Get(props, name, default) ==
    IF name \in DOMAIN props THEN props[name] ELSE default

\* [n for n in nodes if <test on n.compatible>]
NodesOfType(ns, types) == SelectSeq(ns, LAMBDA node : node.compatible \in types)

\* generate_header: if 'adc' in hw.compatible: ... elif 'spi' in
\* hw.compatible: ...
HeaderIsrKind(compatible) ==
    IF CompatibleHas(compatible, "adc") THEN "adc"
    ELSE IF CompatibleHas(compatible, "spi") THEN "spi"
    ELSE "none"

\* generate_source: if node.compatible == 'lq,hw-adc-input': ... elif
\* node.compatible == 'lq,hw-spi-input': ...
IsrKind(compatible) ==
    IF compatible = "lq,hw-adc-input" THEN "adc"
    ELSE IF compatible = "lq,hw-spi-input" THEN "spi"
    ELSE "none"

RECURSIVE IsrDeclarations(_, _)
IsrDeclarations(hw_inputs, i) ==
    IF i > Len(hw_inputs) THEN <<>>
    ELSE LET hw == hw_inputs[i]
             rest == IsrDeclarations(hw_inputs, i + 1)
         IN  IF HeaderIsrKind(hw.compatible) # "none"
             THEN <<[kind |-> HeaderIsrKind(hw.compatible), label |-> hw.label]>>
                  \o rest
             ELSE rest

generate_header(ns) == IsrDeclarations(NodesOfType(ns, HwCompatibles), 1)

\* The names a wake-function property may carry, by index and in the order
\* Python's sorted() gives strings: WakeV(w) is the string WakeNames[w].
WakeNames == <<"alpha_wake", "limp_home", "zeta_wake">>

WakeV(w) == [k |-> "fn", n |-> w, items |-> <<>>]

\* wake_functions = set(); for fm in fault_monitors:
\*     wake_fn = fm.properties.get('wake_function'); if wake_fn: add it
WakeFunctions(ns) ==
    {ns[i].properties["wake_function"].n :
        i \in {j \in DOMAIN ns :
                  /\ ns[j].compatible = "lq,fault-monitor"
                  /\ "wake_function" \in DOMAIN ns[j].properties}}

\* sorted(wake_functions)
RECURSIVE Sorted(_)
Sorted(S) ==
    IF S = {} THEN <<>>
    ELSE LET least == CHOOSE x \in S : \A y \in S : x <= y
         IN  <<least>> \o Sorted(S \ {least})

\* The wake callbacks in the order the loop "for wake_fn in
\* sorted(wake_functions)" writes them, in the header as declarations and
\* in the source as weak stubs.
WakeCallbacks(ns) ==
    [i \in 1..Cardinality(WakeFunctions(ns)) |->
        WakeNames[Sorted(WakeFunctions(ns))[i]]]

\* The orders in which a loop over the set itself may visit its members
\* (string hashing is seeded per process).
SetOrders(S) ==
    {order \in [1..Cardinality(S) -> S] :
        \A i, j \in 1..Cardinality(S) : i # j => order[i] # order[j]}

\* Mutant: the input identities are emitted in reverse order.
InputIds_Reversed(props) ==
    IF "input_signal_ids" \notin DOMAIN props THEN <<>>
    ELSE IF props["input_signal_ids"].k = "list"
    THEN [i \in DOMAIN props["input_signal_ids"].items |->
            props["input_signal_ids"].items[
                Len(props["input_signal_ids"].items) + 1 - i]]
    ELSE <<IntE(props["input_signal_ids"].n)>>

\* generate_source: input_ids = node.properties.get('input_signal_ids', []);
\* if isinstance(input_ids, int): input_ids = [input_ids]
InputIds(props) ==
    IF "input_signal_ids" \notin DOMAIN props THEN <<>>
    ELSE IF props["input_signal_ids"].k = "list"
    THEN props["input_signal_ids"].items
    ELSE <<IntE(props["input_signal_ids"].n)>>

\* One entry of .merges
MergeEntry(node) ==
    [output_signal |-> node.signal_id,
     input_signals |-> InputIds(node.properties),
     num_inputs |-> Len(InputIds(node.properties))]

DefaultPeriodUs == 100000

\* node.properties.get('input_signal_id', 0)
FaultMonitorInput(props) == Get(props, "input_signal_id", IntV(0))

\* One entry of .fault_monitors
FaultMonitorEntry(node) ==
    [input_signal |-> FaultMonitorInput(node.properties),
     fault_output_signal |-> Get(node.properties, "fault_output_signal_id", IntV(0))]

\* node.properties.get('source_signal_id', 0)
CyclicOutputSource(props) == Get(props, "source_signal_id", IntV(0))

\* The values an output-type property may carry, by index: TypeV(t) is
\* the string OutputTypes[t].
OutputTypes ==
    <<"can", "j1939", "canopen", "gpio", "uart", "spi", "i2c", "pwm", "dac",
      "modbus">>

TypeV(t) == [k |-> "type", n |-> t, items |-> <<>>]

\* node.properties.get('output_type', 'can')
OutputTypeOf(props) ==
    IF "output_type" \in DOMAIN props
    THEN OutputTypes[props["output_type"].n] ELSE "can"

\* The enumerator of struct lq_output_event's type for a protocol family,
\* as the case labels of the dispatch function spell it.
Enumerator(output_type) ==
    CASE output_type = "can"     -> "LQ_OUTPUT_CAN"
      [] output_type = "j1939"   -> "LQ_OUTPUT_J1939"
      [] output_type = "canopen" -> "LQ_OUTPUT_CANOPEN"
      [] output_type = "gpio"    -> "LQ_OUTPUT_GPIO"
      [] output_type = "uart"    -> "LQ_OUTPUT_UART"
      [] output_type = "spi"     -> "LQ_OUTPUT_SPI"
      [] output_type = "i2c"     -> "LQ_OUTPUT_I2C"
      [] output_type = "pwm"     -> "LQ_OUTPUT_PWM"
      [] output_type = "dac"     -> "LQ_OUTPUT_DAC"
      [] output_type = "modbus"  -> "LQ_OUTPUT_MODBUS"

\* output_type_map.get(...): the dictionary has five keys, and get returns
\* None for any other, which the f-string writes as the text None.
output_type_map(output_type) ==
    IF output_type \in {"can", "j1939", "canopen", "gpio", "uart"}
    THEN Enumerator(output_type) ELSE "None"

\* The families under an "if '<family>' in output_types_used:" that writes
\* a case of the dispatch function.
DispatchFamilies ==
    {"j1939", "canopen", "spi", "i2c", "pwm", "dac", "modbus", "can", "gpio",
     "uart"}

\* output_types_used, and the case labels written for it.
output_types_used(cyclic_outputs) ==
    {OutputTypeOf(cyclic_outputs[i].properties) : i \in DOMAIN cyclic_outputs}

DispatchCases(cyclic_outputs) ==
    {Enumerator(t) : t \in output_types_used(cyclic_outputs) \cap DispatchFamilies}

\* One entry of .cyclic_outputs
CyclicOutputEntry(node) ==
    [type |-> output_type_map(OutputTypeOf(node.properties)),
     target_id |-> Get(node.properties, "target_id", IntV(0)),
     device_index |-> Get(node.properties, "device_index", IntV(0)),
     source_signal |-> CyclicOutputSource(node.properties),
     period_us |-> Get(node.properties, "period_us", IntV(DefaultPeriodUs))]

\* The ISR handlers of lq_generated.c: lq_hw_push(signal_id, value) for an
\* ADC or SPI hardware input.
RECURSIVE IsrHandlers(_, _)
IsrHandlers(hw_inputs, i) ==
    IF i > Len(hw_inputs) THEN <<>>
    ELSE LET node == hw_inputs[i]
             rest == IsrHandlers(hw_inputs, i + 1)
         IN  IF IsrKind(node.compatible) # "none"
             THEN <<[kind |-> IsrKind(node.compatible), label |-> node.label,
                     push |-> Get(node.properties, "signal_id", IntV(0))]>> \o rest
             ELSE rest

RECURSIVE SeqMax(_, _, _)
SeqMax(ids, i, m) ==
    IF i > Len(ids) THEN m ELSE SeqMax(ids, i + 1, Max(m, ids[i].n))

\* max_signal_id of generate_source, one category loop after the other.
RECURSIVE SourceMaxFrom(_, _, _, _)
SourceMaxFrom(ns, names, i, m) ==
    IF i > Len(ns) THEN m
    ELSE LET props == ns[i].properties
             m1 == SetMax({m} \cup {Get(props, name, IntV(0)).n : name \in names})
         IN  SourceMaxFrom(ns, names, i + 1,
                           IF "input_signal_ids" \in names
                           THEN SeqMax(InputIds(props), 1, m1) ELSE m1)

SourceNumSignals(hw_inputs, merges, cyclic_outputs, fault_monitors) ==
    LET m1 == SourceMaxFrom(hw_inputs, {"signal_id"}, 1, 0)
        m2 == SourceMaxFrom(merges, {"output_signal_id", "input_signal_ids"}, 1, m1)
        m3 == SourceMaxFrom(cyclic_outputs, {"source_signal_id"}, 1, m2)
        m4 == SourceMaxFrom(fault_monitors,
                            {"input_signal_id", "fault_output_signal_id"}, 1, m3)
    IN  m4 + 1

\* The engine instance written to lq_generated.c, from the nodes as
\* generate_source categorizes them (after the generic nodes are rewritten).
generate_source(ns) ==
    LET hw_inputs == NodesOfType(ns, HwCompatibles)
        merges == NodesOfType(ns, {"lq,mid-merge"})
        fault_monitors == NodesOfType(ns, {"lq,fault-monitor"})
        cyclic_outputs == NodesOfType(ns, {"lq,cyclic-output"})
    IN  [num_signals |-> SourceNumSignals(hw_inputs, merges, cyclic_outputs,
                                          fault_monitors),
         merges |-> [i \in DOMAIN merges |-> MergeEntry(merges[i])],
         fault_monitors |->
            [i \in DOMAIN fault_monitors |-> FaultMonitorEntry(fault_monitors[i])],
         cyclic_outputs |->
            [i \in DOMAIN cyclic_outputs |-> CyclicOutputEntry(cyclic_outputs[i])],
         dispatch |-> DispatchCases(cyclic_outputs),
         isrs |-> IsrHandlers(hw_inputs, 1)]

GenerateConfigHeader ==
    /\ pc = "counted"
    /\ files' = files \cup {"lq_config.h"}
    /\ contents' = [contents EXCEPT !.config = counts]
    /\ pc' = "config"
    /\ UNCHANGED <<parsed, nodes, counts, platform, exit_code, sidevars,
                 testdts>>

\* Mutant: the wake callbacks are declared by a loop over the set, without
\* sorted().
GenerateHeader_SetOrder ==
    /\ pc = "config"
    /\ files' = files \cup {"lq_generated.h"}
    /\ \E order \in SetOrders(WakeFunctions(nodes)) :
          contents' = [contents EXCEPT
                          !.header = generate_header(nodes),
                          !.header_wakes =
                              [i \in DOMAIN order |-> WakeNames[order[i]]]]
    /\ pc' = "header"
    /\ UNCHANGED <<parsed, nodes, counts, platform, exit_code, sidevars,
                 testdts>>

GenerateHeader ==
    /\ pc = "config"
    /\ files' = files \cup {"lq_generated.h"}
    /\ contents' = [contents EXCEPT !.header = generate_header(nodes),
                                    !.header_wakes = WakeCallbacks(nodes)]
    /\ pc' = "header"
    /\ UNCHANGED <<parsed, nodes, counts, platform, exit_code, sidevars,
                 testdts>>

GenerateSource ==
    /\ pc = "header"
    /\ nodes' = [i \in DOMAIN nodes |-> NormalizeGeneric(nodes[i])]
    /\ files' = files \cup {"lq_generated.c"}
    /\ contents' = [contents EXCEPT !.source = generate_source(nodes'),
                                    !.source_wakes = WakeCallbacks(nodes')]
    /\ pc' = "source"
    /\ UNCHANGED <<parsed, counts, platform, exit_code, sidevars,
                 testdts>>

(***************************************************************************)
(* generate_hil_tests_impl: the test topology derived from the nodes.  A   *)
(* test case is [steps |-> <<...>>]; a step holds its action name and the  *)
(* names of the properties written in it.                                  *)
(***************************************************************************)
Step(action, props) == [action |-> action, props |-> props]

NodesWith(ns, words) ==
    SelectSeq(ns, LAMBDA node : \E w \in words : CompatibleHas(node.compatible, w))

InjectAdc == Step("inject-adc", {"channel", "value"})

InjectCanPgn ==
    Step("inject-can-pgn", {"pgn", "priority", "source-addr", "data"})

ExpectCanPgn == Step("expect-can", {"pgn", "timeout-ms"})

ExpectCanId == Step("expect-can", {"can-id", "timeout-ms"})

\* "Expect output based on actual output type" of the first two test cases.
ExpectOutput(output_nodes, with_pwm) ==
    IF output_nodes = <<>> THEN <<>>
    ELSE LET output_type == OutputTypeOf(output_nodes[1].properties)
         IN  CASE output_type = "gpio" ->
                    <<Step("wait-gpio-high", {"pin", "timeout-ms"})>>
               [] output_type = "canopen" -> <<ExpectCanId>>
               [] output_type = "can" -> <<ExpectCanPgn>>
               [] output_type = "pwm" /\ with_pwm ->
                    <<Step("measure-pwm", {"channel", "timeout-ms"})>>
               [] OTHER -> <<>>

\* step@1 of the fault-trigger case (high is TRUE) and of the
\* normal-operation case.
ExpectFault(output_type, high) ==
    CASE output_type = "gpio" ->
            <<Step(IF high THEN "wait-gpio-high" ELSE "wait-gpio-low",
                   {"pin", "timeout-ms"})>>
      [] output_type = "canopen" ->
            <<IF high THEN ExpectCanPgn ELSE ExpectCanId>>
      [] output_type = "can" -> <<ExpectCanPgn>>
      [] OTHER -> <<>>

generate_hil_tests_impl(ns) ==
    LET adc_sources == NodesWith(ns, {"adc"})
        can_sources == NodesWith(ns, {"can"})
        merge_nodes == NodesWith(ns, {"merge", "voter"})
        fault_monitors == NodesWith(ns, {"fault-monitor"})
        output_nodes == NodesWith(ns, {"cyclic-output", "can-output"})
        first_three == IF Len(adc_sources) < 3 THEN Len(adc_sources) ELSE 3
        output_type == OutputTypeOf(output_nodes[1].properties)
    IN  <<[steps |-> [i \in DOMAIN adc_sources |-> InjectAdc]
                     \o [i \in DOMAIN can_sources |-> InjectCanPgn]
                     \o ExpectOutput(output_nodes, TRUE)]>>
        \o (IF merge_nodes # <<>>
            THEN <<[steps |-> [i \in 1..first_three |-> InjectAdc]
                             \o ExpectOutput(output_nodes, FALSE)]>>
            ELSE <<>>)
        \o (IF fault_monitors # <<>> /\ adc_sources # <<>> /\ output_nodes # <<>>
            THEN <<[steps |-> <<InjectAdc>> \o ExpectFault(output_type, TRUE)],
                   [steps |-> <<InjectAdc>> \o ExpectFault(output_type, FALSE)]>>
            ELSE <<>>)
        \o (IF adc_sources # <<>> /\ output_nodes # <<>>
            THEN <<[steps |-> <<Step("measure-latency", {"max-latency-us"})>>]>>
            ELSE <<>>)

GenerateHilTests ==
    /\ pc = "source"
    /\ files' = files \cup {"lq_generated_test.dts"}
    /\ testdts' = generate_hil_tests_impl(nodes)
    /\ pc' = "hil"
    /\ UNCHANGED <<parsed, nodes, counts, contents, platform, exit_code,
                 sidevars>>

GenerateMain ==
    /\ pc = "hil"
    /\ files' = files \cup {"main.c"}
    /\ pc' = "main"
    /\ UNCHANGED <<parsed, nodes, counts, contents, platform, exit_code,
                 sidevars,
                 testdts>>

\* The keys of get_platform_adaptor's table.
Adaptors == {"stm32", "samd", "esp32", "nrf52", "avr"}

\* The names the usage text, the --platform help and the closing tip
\* advertise.
AdvertisedPlatforms ==
    {"stm32", "samd", "esp32", "nrf52", "baremetal", "zephyr", "freertos"}

\* Values of --platform tried here; NoPlatform is the option left out.
PlatformOptions ==
    {NoPlatform, "STM32", "unknown-target"} \cup Adaptors \cup AdvertisedPlatforms

\* platform.lower()
Lower(name) == IF name = "STM32" THEN "stm32" ELSE name

\* adaptors.get(platform.lower()); None (here NoPlatform) raises ValueError
get_platform_adaptor(name) ==
    IF Lower(name) \in Adaptors THEN Lower(name) ELSE NoPlatform

\* The hardware-input types for which a variant's generate_isr_wrapper
\* returns code.
WrappedTypes(adaptor) ==
    IF adaptor \in {"stm32", "esp32", "nrf52"}
    THEN {"lq,hw-adc-input", "lq,hw-spi-input", "lq,hw-can-input"}
    ELSE {"lq,hw-adc-input", "lq,hw-spi-input"}

\* signal_id = node.properties.get('signal_id', 0)
WrapperSignalId(hw_inputs, i) == Get(hw_inputs[i].properties, "signal_id", IntV(0))

RECURSIVE IsrWrappers(_, _, _)
IsrWrappers(adaptor, hw_inputs, i) ==
    IF i > Len(hw_inputs) THEN <<>>
    ELSE LET node == hw_inputs[i]
             rest == IsrWrappers(adaptor, hw_inputs, i + 1)
         IN  IF node.compatible \in WrappedTypes(adaptor)
             THEN <<[label |-> node.label, entry |-> "lq_hw_push",
                     push |-> WrapperSignalId(hw_inputs, i)]>> \o rest
             ELSE rest

\* The ISR wrappers written to lq_platform_hw.c.
generate_platform_hw(ns, adaptor) ==
    IsrWrappers(adaptor, NodesOfType(ns, HwCompatibles), 1)

\* The peripheral families a variant's generate_peripheral_init knows, with
\* the hardware-input type each one selects its nodes by.
PeripheralFamilies == {"gpio", "adc", "i2c", "spi", "uart", "can"}

FamilyType(family) == "lq,hw-" \o family \o "-input"

\* The families whose block sits under "if <family>_nodes:".
ConditionalBlocks(adaptor) ==
    CASE adaptor = "stm32" -> {"gpio", "adc", "i2c", "spi", "uart", "can"}
      [] adaptor = "samd"  -> {"gpio", "adc", "i2c", "uart"}
      [] adaptor = "esp32" -> {"gpio", "adc", "i2c", "uart", "spi", "can"}
      [] adaptor = "nrf52" -> {"gpio", "adc", "i2c", "uart", "spi"}
      [] adaptor = "avr"   -> {"gpio", "i2c", "uart"}
      [] OTHER             -> {}

\* The families whose block is appended to the code under no condition.
UnconditionalBlocks(adaptor) ==
    IF adaptor = "avr" THEN {"adc", "spi"} ELSE {}

\* The families for which the text returned by generate_peripheral_init
\* holds a configuration block.
generate_peripheral_init(adaptor, hw_inputs) ==
    {family \in ConditionalBlocks(adaptor) :
        \E i \in DOMAIN hw_inputs :
            hw_inputs[i].compatible = FamilyType(family)}
    \cup UnconditionalBlocks(adaptor)

\* Mutant: the failure path of the backend stage cleans the output
\* directory.
GeneratePlatformHw_CleansOnError ==
    /\ pc = "main"
    /\ \E option \in PlatformOptions :
          /\ platform' = option
          /\ IF option = NoPlatform
             THEN UNCHANGED <<files, contents>>
             ELSE IF get_platform_adaptor(option) # NoPlatform
             THEN /\ files' = files \cup {"lq_platform_hw.c"}
                  /\ contents' =
                        [contents EXCEPT
                            !.platform =
                                generate_platform_hw(nodes, get_platform_adaptor(option)),
                            !.init =
                                generate_peripheral_init(
                                    get_platform_adaptor(option),
                                    NodesOfType(nodes, HwCompatibles))]
             ELSE /\ files' = {}
                  /\ contents' = NoContents
    /\ pc' = "exit"
    /\ exit_code' = 0
    /\ UNCHANGED <<parsed, nodes, counts, sidevars,
                 testdts>>

\* if platform: generate_platform_hw(...) else: print the tip; then main
\* returns, and the process exits 0.  generate_platform_hw prints the
\* ValueError of get_platform_adaptor for an unknown name and returns
\* without writing; platform_adaptors.py is importable (PLATFORM_SUPPORT).
GeneratePlatformHw ==
    /\ pc = "main"
    /\ \E option \in PlatformOptions :
          /\ platform' = option
          /\ IF option # NoPlatform /\ get_platform_adaptor(option) # NoPlatform
             THEN /\ files' = files \cup {"lq_platform_hw.c"}
                  /\ contents' =
                        [contents EXCEPT
                            !.platform =
                                generate_platform_hw(nodes, get_platform_adaptor(option)),
                            !.init =
                                generate_peripheral_init(
                                    get_platform_adaptor(option),
                                    NodesOfType(nodes, HwCompatibles))]
             ELSE UNCHANGED <<files, contents>>
    /\ pc' = "exit"
    /\ exit_code' = 0
    /\ UNCHANGED <<parsed, nodes, counts, sidevars,
                 testdts>>

(***************************************************************************)
(* canopen_eds_parser.py and expand_eds_references: the object-dictionary  *)
(* import.  An object-dictionary file is described by the number of mapped *)
(* objects (sub-index 0) of each of its four transmit and four receive     *)
(* mapping objects 0x1A00+k and 0x1600+k; its sub-indices 1..8 are present *)
(* and hold the packed value MappedValue.                                  *)
(***************************************************************************)
NumPdoSlots == 4

MaxMappingsPerPdo == 8

DefaultNodeId == 5

TpdoCobBase == 384

RpdoCobBase == 512

CobSlotStride == 256

TpdoSignalBase == 100

RpdoSignalBase == 0

SignalSlotStride == 32

Min(a, b) == IF a <= b THEN a ELSE b

\* Format 0xIIIISSLL: index 16 bit, sub-index 8 bit, length 8 bit.
PackedMapping(index, subindex, length) ==
    index * 65536 + subindex * 256 + length

\* The DefaultValue of sub-index map_idx of the mapping object of a slot.
MappedValue(slot, map_idx) == PackedMapping(24640 + slot, map_idx, 16)

\* idx = (map_value >> 16) & 0xFFFF; sub = (map_value >> 8) & 0xFF;
\* length = map_value & 0xFF
PDOMapping(map_value) ==
    [index |-> (map_value \div 65536) % 65536,
     subindex |-> (map_value \div 256) % 256,
     length |-> map_value % 256]

\* for map_idx in range(1, min(num_mapped + 1, 9)): append the mapping
PdoMappingList(num_mapped, slot) ==
    [map_idx \in 1 .. (Min(num_mapped + 1, MaxMappingsPerPdo + 1) - 1) |->
        PDOMapping(MappedValue(slot, map_idx))]

parse_eds(file) ==
    [tpdo_mappings |->
        [k \in 1 .. NumPdoSlots |-> PdoMappingList(file.tpdo[k], k - 1)],
     rpdo_mappings |->
        [k \in 1 .. NumPdoSlots |-> PdoMappingList(file.rpdo[k], k - 1)]]

\* 'signal_id': 100 + pdo_idx * 32 + map_idx  /  pdo_idx * 32 + map_idx
MappingSignalId(base, pdo_idx, map_idx) ==
    base + pdo_idx * SignalSlotStride + map_idx

\* for pdo_idx, mappings in enumerate(device.tpdo_mappings): if mappings: ...
RECURSIVE ConvertPdos(_, _, _, _)
ConvertPdos(mappings_by_slot, cob_base, signal_base, k) ==
    IF k > NumPdoSlots THEN <<>>
    ELSE LET mappings == mappings_by_slot[k]
             pdo_idx == k - 1
             rest == ConvertPdos(mappings_by_slot, cob_base, signal_base, k + 1)
         IN  IF mappings # <<>>
             THEN <<[cob_id |-> cob_base + (pdo_idx * CobSlotStride) + DefaultNodeId,
                     mappings |->
                        [m \in DOMAIN mappings |->
                            [index |-> mappings[m].index,
                             subindex |-> mappings[m].subindex,
                             length |-> mappings[m].length,
                             signal_id |-> MappingSignalId(signal_base, pdo_idx,
                                                          m - 1)]]]>> \o rest
             ELSE rest

parse_eds_file(file) ==
    LET device == parse_eds(file)
    IN  [node_id |-> DefaultNodeId,
         tpdos |-> ConvertPdos(device.tpdo_mappings, TpdoCobBase,
                               TpdoSignalBase, 1),
         rpdos |-> ConvertPdos(device.rpdo_mappings, RpdoCobBase,
                               RpdoSignalBase, 1)]

\* list.index(x): the first position holding an equal element, from 0.
ListIndex(list, x) ==
    (CHOOSE i \in DOMAIN list :
        list[i] = x /\ \A j \in 1 .. (i - 1) : list[j] # x) - 1

\* for pdo in pdos: pdo_idx = pdos.index(pdo);
\*     pdo['cob_id'] = base + (pdo_idx * 0x100) + node_id
RECURSIVE RecomputeCobIds(_, _, _, _)
RecomputeCobIds(pdos, cob_base, node_id, j) ==
    IF j > Len(pdos) THEN pdos
    ELSE RecomputeCobIds(
            [pdos EXCEPT ![j].cob_id =
                cob_base + (ListIndex(pdos, pdos[j]) * CobSlotStride) + node_id],
            cob_base, node_id, j + 1)

\* Override node-id if specified in DTS.
OverrideNodeId(eds_data, node_id) ==
    IF node_id # None
    THEN [node_id |-> node_id,
          tpdos |-> RecomputeCobIds(eds_data.tpdos, TpdoCobBase, node_id, 1),
          rpdos |-> RecomputeCobIds(eds_data.rpdos, RpdoCobBase, node_id, 1)]
    ELSE eds_data

\* The expanded node: node-id, one tpdo@idx / rpdo@idx per PDO with its
\* cob-id and its mappings.
generate_canopen_node(eds_data, label) ==
    [kind |-> "canopen", label |-> label, node_id |-> eds_data.node_id,
     tpdos |-> eds_data.tpdos, rpdos |-> eds_data.rpdos]

\* Mutant: the first node of the text is replaced, whichever node matched.
ReplaceNode_First(content, full_node, expanded_node) ==
    [i \in DOMAIN content |-> IF i = 1 THEN expanded_node ELSE content[i]]

\* expanded_content.replace(full_node, expanded_node_content)
ReplaceNode(content, full_node, expanded_node) ==
    [i \in DOMAIN content |->
        IF content[i] = full_node THEN expanded_node ELSE content[i]]

\* A CANopen device node of the input text: its label, its node-id
\* property (None when absent) and the file its eds property names
\* (NoEdsProperty when the node has no eds property).
Stub(label, node_id, eds) ==
    [kind |-> "stub", label |-> label, node_id |-> node_id, eds |-> eds]

NoEdsProperty == [exists |-> FALSE, named |-> FALSE]

MissingFile == [exists |-> FALSE, named |-> TRUE]

EdsFile(tpdo, rpdo) ==
    [exists |-> TRUE, named |-> TRUE, tpdo |-> tpdo, rpdo |-> rpdo]

OverrideNodeIds == {None, 7}

EdsFiles ==
    {EdsFile(<<a, b, 0, 0>>, <<c, 0, 0, d>>) :
        a \in {0, 1, 2}, b \in {0, 1}, c \in {0, 1}, d \in {0, 5, MaxNumMapped}}

StubInputs ==
    {<<None, NoEdsProperty>>, <<None, MissingFile>>}
    \cup {<<n, f>> : n \in OverrideNodeIds, f \in EdsFiles}

\* if args.expand_eds: expand_eds_references(...)
BeginExpandEds ==
    /\ pc = "start"
    /\ pc' = "expand"
    /\ UNCHANGED <<parsed, nodes, counts, files, contents, platform, exit_code,
                   sidevars,
                 testdts>>

\* One iteration of the loop over the canopen-device nodes of the text.
ExpandStub ==
    /\ pc = "expand"
    /\ Len(description) < MaxStubs
    /\ \E input \in StubInputs :
          LET stub == Stub(Len(description) + 1, input[1], input[2])
              text == Append(expanded, stub)
          IN  /\ description' = Append(description, stub)
              /\ IF ~stub.eds.named
                 THEN /\ expanded' = text
                      /\ UNCHANGED warnings
                 ELSE IF ~stub.eds.exists
                 THEN /\ expanded' = text
                      /\ warnings' = Append(warnings, stub.label)
                 ELSE /\ expanded' =
                            ReplaceNode(text, stub,
                                generate_canopen_node(
                                    OverrideNodeId(parse_eds_file(stub.eds),
                                                   stub.node_id),
                                    stub.label))
                      /\ UNCHANGED warnings
    /\ UNCHANGED <<pc, parsed, nodes, counts, files, contents, platform,
                   exit_code, prior, runvars, testdts,
                   dts_content>>

\* Write expanded DTS; main returns.
WriteExpanded ==
    /\ pc = "expand"
    /\ files' = files \cup {"expanded.dts"}
    /\ pc' = "exit"
    /\ exit_code' = 0
    /\ UNCHANGED <<parsed, nodes, counts, contents, platform, sidevars,
                 testdts>>

NextEds ==
    \/ MissingInput
    \/ BeginExpandEds
    \/ ExpandStub
    \/ WriteExpanded

SpecEds == Init /\ [][NextEds]_vars

ParseIdNode == ParseNode(IdShapes, MaxNodes)

NextIds ==
    \/ MissingInput
    \/ ReadInput
    \/ ParseIdNode
    \/ Resolve
    \/ CalculateResourceCounts

SpecIds == Init /\ [][NextIds]_vars

\* Nodes that reference other nodes.  A reference names label 1 or 2 (the
\* first two nodes of the collection, when they exist) or Ghost, a label no
\* node carries.  <&a> parses to a single label, <&a &b> to a list of labels,
\* <3> to an integer and <0 1> to a list of integers.
Ghost == 0

RefLabels == {Ghost, 1, 2}

RefPairs == {<<StrE(a), StrE(b)>> : a, b \in RefLabels}

RefListValues ==
    {StrV(l) : l \in RefLabels}
    \cup {ListV(r) : r \in RefPairs}
    \cup {IntV(MaxExplicitId), ListV(<<IntE(0), IntE(1), IntE(MaxExplicitId)>>)}

RefShapes ==
    {Shape("lq,hw-adc-input", NoProps),
     Shape("lq,hw-adc-input", OneProp("signal_id", IntV(MaxExplicitId)))}
    \cup {Shape(c, OneProp(p, StrV(l))) :
            c \in {"lq,scale", "lq,cyclic-output"},
            p \in {"source", "source_signal"}, l \in RefLabels}
    \cup {Shape("lq,fault-monitor", OneProp(p, StrV(l))) :
            p \in {"input", "input_signal"}, l \in RefLabels}
    \cup {Shape("lq,verified-output", OneProp(p, StrV(l))) :
            p \in {"output", "output_signal"}, l \in RefLabels}
    \cup {Shape("lq,mid-merge", OneProp(p, v)) :
            p \in {"sources", "input_signal_ids"}, v \in RefListValues}

ParseRefNode == ParseNode(RefShapes, MaxRefNodes)

NextRefs ==
    \/ MissingInput
    \/ ReadInput
    \/ ParseRefNode
    \/ Resolve
    \/ CalculateResourceCounts

SpecRefs == Init /\ [][NextRefs]_vars

\* Whole runs of main: descriptions with producers, with references that
\* resolve and that name an undeclared label, and with generic nodes.
MainShapes ==
    {Shape("lq,hw-adc-input", NoProps)}
    \cup {Shape(c, OneProp("source", StrV(l))) :
            c \in {"lq,scale", "lq,cyclic-output"}, l \in {Ghost, 1}}
    \cup {Shape("lq,scale", OneProp("source_signal", StrV(Ghost))),
          Shape("lq,fault-monitor", OneProp("input", StrV(Ghost))),
          Shape("lq,mid-merge", OneProp("sources", ListV(<<StrE(1), StrE(Ghost)>>))),
          Shape("lq,mid-merge", OneProp("sources", ListV(<<StrE(1), StrE(2)>>)))}
    \cup {Shape("lq,input", OneProp("device", NameV(d))) : d \in {2, 3}}
    \cup {Shape("lq,output", OneProp("device", NameV(1)))}

ParseMainNode == ParseNode(MainShapes, MaxNodes)

NextMain ==
    \/ MissingInput
    \/ ReadInput
    \/ ParseMainNode
    \/ Resolve
    \/ CalculateResourceCounts
    \/ GenerateConfigHeader
    \/ GenerateHeader
    \/ GenerateSource
    \/ GenerateHilTests
    \/ GenerateMain
    \/ GeneratePlatformHw

SpecMain == Init /\ [][NextMain]_vars

\* Descriptions whose outputs, fault monitors and merge blocks reference
\* producers by label, compiled up to the initializer source.
TwoProps(n1, v1, n2, v2) == SetProp(OneProp(n1, v1), n2, v2)

GenShapes ==
    {Shape("lq,hw-adc-input", NoProps),
     Shape("lq,hw-adc-input", OneProp("signal_id", IntV(MaxExplicitId))),
     Shape("lq,cyclic-output", OneProp("source", StrV(1))),
     Shape("lq,cyclic-output", OneProp("source", StrV(2))),
     Shape("lq,cyclic-output", OneProp("source_signal", StrV(2))),
     Shape("lq,cyclic-output",
           TwoProps("source", StrV(2), "period_us", IntV(5000))),
     Shape("lq,cyclic-output", OneProp("source_signal_id", IntV(1))),
     Shape("lq,fault-monitor", OneProp("input", StrV(1))),
     Shape("lq,fault-monitor", OneProp("input", StrV(2))),
     Shape("lq,fault-monitor", OneProp("input_signal", StrV(2))),
     Shape("lq,mid-merge", OneProp("sources", StrV(2))),
     Shape("lq,mid-merge", OneProp("sources", ListV(<<StrE(1), StrE(2)>>))),
     Shape("lq,mid-merge", OneProp("sources", ListV(<<StrE(2), StrE(1)>>))),
     Shape("lq,mid-merge", OneProp("sources", ListV(<<StrE(2), StrE(2)>>))),
     Shape("lq,mid-merge",
           OneProp("input_signal_ids", ListV(<<StrE(2), StrE(1)>>))),
     Shape("lq,mid-merge", OneProp("sources", ListV(<<StrE(1), StrE(Ghost)>>)))}

ParseGenNode == ParseNode(GenShapes, MaxGenNodes)

NextGen ==
    \/ MissingInput
    \/ ReadInput
    \/ ParseGenNode
    \/ Resolve
    \/ CalculateResourceCounts
    \/ GenerateConfigHeader
    \/ GenerateHeader
    \/ GenerateSource

SpecGen == Init /\ [][NextGen]_vars

\* Collections long enough for the cyclic-output count to pass the floor of
\* the output-event bound.
OutputShapes ==
    {Shape(c, NoProps) : c \in {"lq,cyclic-output", "lq,hw-adc-input"}}

ParseOutputNode == ParseNode(OutputShapes, MaxOutNodes)

NextOutputs ==
    \/ MissingInput
    \/ ReadInput
    \/ ParseOutputNode
    \/ Resolve
    \/ CalculateResourceCounts

SpecOutputs == Init /\ [][NextOutputs]_vars

(***************************************************************************)
(* Two compiles of one description: after the first run has exited, main   *)
(* is started again on the same input file with an empty output directory. *)
(***************************************************************************)
MaxTwiceNodes == 2

TwiceShapes ==
    {Shape("lq,hw-adc-input", NoProps), Shape("lq,hw-spi-input", NoProps),
     Shape("lq,fault-monitor", NoProps)}
    \cup {Shape("lq,fault-monitor", OneProp("wake_function", WakeV(w))) :
            w \in DOMAIN WakeNames}

\* The second run reads the file the first run read.
ParseTwiceNode ==
    /\ ParseNode(TwiceShapes, MaxTwiceNodes)
    /\ prior.run = 1 =>
          /\ Len(nodes') <= Len(prior.parsed)
          /\ nodes' = SubSeq(prior.parsed, 1, Len(nodes'))

ResolveTwice ==
    /\ Resolve
    /\ prior.run = 1 => nodes = prior.parsed

\* The first run has returned; its input, option and artifacts are kept for
\* comparison, and a new process starts with a new, empty output directory.
CompileAgain ==
    /\ pc = "exit"
    /\ exit_code = 0
    /\ prior.run = 0
    /\ prior' = [run |-> 1, parsed |-> parsed, platform |-> platform,
                 files |-> files, contents |-> contents, testdts |-> testdts]
    /\ pc' = "start"
    /\ parsed' = <<>>
    /\ nodes' = <<>>
    /\ counts' = ZeroCounts
    /\ files' = {}
    /\ contents' = NoContents
    /\ platform' = NoPlatform
    /\ exit_code' = None
    /\ testdts' = <<>>
    /\ UNCHANGED <<edsvars, runvars, dts_content>>

NextTwice ==
    \/ ReadInput
    \/ ParseTwiceNode
    \/ ResolveTwice
    \/ CalculateResourceCounts
    \/ GenerateConfigHeader
    \/ GenerateHeader
    \/ GenerateSource
    \/ GenerateHilTests
    \/ GenerateMain
    \/ GeneratePlatformHw
    \/ CompileAgain

SpecTwice == Init /\ [][NextTwice]_vars

(***************************************************************************)
(* hil_test_gen.py: a test-topology description is a sequence of test      *)
(* cases (the hil-test-* nodes parse_test_dts returns), each a sequence of *)
(* steps; a step holds its action name and the names of the properties     *)
(* written in it.  generate_test_runner turns every test case into one C   *)
(* function and calls the functions from main, one tap_result each.        *)
(***************************************************************************)
\* The branches of the if/elif chain over step.action.
RunnerActions ==
    {"inject-adc", "inject-can", "inject-can-pgn", "wait-gpio-high",
     "wait-gpio-low", "expect-can", "measure-latency", "delay"}

\* The property names a branch reads with step.properties.get.
PropertiesRead(action) ==
    CASE action = "inject-adc"      -> {"channel", "value", "delay-ms"}
      [] action = "inject-can-pgn"  ->
            {"pgn", "priority", "source-addr", "extended", "data"}
      [] action = "inject-can"      -> {"can-id", "extended", "data"}
      [] action \in {"wait-gpio-high", "wait-gpio-low"} -> {"pin", "timeout-ms"}
      [] action = "expect-can"      -> {"timeout-ms", "pgn"}
      [] action = "measure-latency" -> {"max-latency-us"}
      [] action = "delay"           -> {"duration-ms"}
      [] OTHER                      -> {}

\* Every branch but "delay" emits a check that ends the function with
\* "return false;".
CanFail(action) == action \in RunnerActions \ {"delay"}

\* The statements emitted for the steps of one test case; a step whose
\* action matches no branch emits nothing.
RECURSIVE TranslateSteps(_, _)
TranslateSteps(steps, i) ==
    IF i > Len(steps) THEN <<>>
    ELSE LET step == steps[i]
             rest == TranslateSteps(steps, i + 1)
         IN  IF step.action \in RunnerActions
             THEN <<[step |-> i, action |-> step.action,
                     reads |-> step.props \cap PropertiesRead(step.action),
                     can_fail |-> CanFail(step.action)]>> \o rest
             ELSE rest

\* The test functions of test_runner.c, in the order main calls them.
generate_test_runner(tests) ==
    [t \in DOMAIN tests |-> TranslateSteps(tests[t].steps, 1)]

MaxCases == 2

MaxSteps == 2

\* Steps of a hand-authored description: one whose statement cannot fail
\* and one whose statement returns false on a timeout.
AuthoredSteps ==
    {Step("inject-adc", {"channel", "value"}),
     Step("expect-can", {"pgn", "timeout-ms"})}

AuthoredSequences ==
    UNION {[1..n -> AuthoredSteps] : n \in 0..MaxSteps}

\* One more hil-test-* node of the description file handed to
\* hil_test_gen.py.
AuthorCase ==
    /\ pc \in {"start", "tests"}
    /\ Len(testdts) < MaxCases
    /\ \E steps \in AuthoredSequences :
          testdts' = Append(testdts, [steps |-> steps])
    /\ pc' = "tests"
    /\ UNCHANGED <<parsed, nodes, counts, files, contents, platform, exit_code,
                   sidevars>>

\* hil_test_gen.main: if not tests: warning, sys.exit(0)
NoTestsFound ==
    /\ pc = "start"
    /\ testdts = <<>>
    /\ pc' = "exit"
    /\ exit_code' = 0
    /\ UNCHANGED <<parsed, nodes, counts, files, contents, platform, sidevars,
                   testdts>>

\* hil_test_gen.main: generate_test_runner(tests, output_dir/test_runner.c)
GenerateTestRunner ==
    /\ \/ pc = "tests"
       \/ pc = "exit" /\ "lq_generated_test.dts" \in files
    /\ testdts # <<>>
    /\ runner' = generate_test_runner(testdts)
    /\ files' = files \cup {"test_runner.c"}
    /\ pc' = "runner"
    /\ UNCHANGED <<parsed, nodes, counts, contents, platform, exit_code,
                   edsvars, prior, harness, testdts,
                   dts_content>>

(***************************************************************************)
(* The run of the compiled harness, test_runner.c.                         *)
(***************************************************************************)
\* main: the argument loop; without --sut-pid the usage text and return 1.
HarnessStart ==
    /\ pc = "runner"
    /\ harness.pc = "idle"
    /\ \E sut_pid \in {0, 1} :
          harness' = IF sut_pid = 0
                     THEN [harness EXCEPT !.pc = "exit", !.status = 1]
                     ELSE [harness EXCEPT !.pc = "init"]
    /\ UNCHANGED <<pc, parsed, nodes, counts, files, contents, platform,
                   exit_code, edsvars, prior, runner, testdts,
                   dts_content>>

\* main: lq_hil_init(LQ_HIL_MODE_TESTER, sut_pid) != 0 returns 1; else the
\* TAP header is printed and the first test function is called.
HarnessInit ==
    /\ harness.pc = "init"
    /\ \E ok \in BOOLEAN :
          harness' = IF ok
                     THEN [harness EXCEPT !.pc = "case", !.test = 1, !.stmt = 1]
                     ELSE [harness EXCEPT !.pc = "exit", !.status = 1]
    /\ UNCHANGED <<pc, parsed, nodes, counts, files, contents, platform,
                   exit_code, edsvars, prior, runner, testdts,
                   dts_content>>

\* Mutant: a failed check ends the process (exit(1)) instead of the
\* function.
RunStatement_ExitOnFailure ==
    /\ harness.pc = "case"
    /\ harness.test <= Len(runner)
    /\ harness.stmt <= Len(runner[harness.test])
    /\ \E ok \in BOOLEAN :
          harness' =
              IF runner[harness.test][harness.stmt].can_fail /\ ~ok
              THEN [harness EXCEPT !.pc = "exit", !.status = 1]
              ELSE [harness EXCEPT !.stmt = @ + 1]
    /\ UNCHANGED <<pc, parsed, nodes, counts, files, contents, platform,
                   exit_code, edsvars, prior, runner, testdts,
                   dts_content>>

\* One statement of a test function: the call into lq_hil_tester_* returns
\* zero or not; on nonzero the function returns false.
RunStatement ==
    /\ harness.pc = "case"
    /\ harness.test <= Len(runner)
    /\ harness.stmt <= Len(runner[harness.test])
    /\ \E ok \in BOOLEAN :
          harness' =
              IF runner[harness.test][harness.stmt].can_fail /\ ~ok
              THEN [harness EXCEPT !.pc = "tap", !.result = FALSE]
              ELSE [harness EXCEPT !.stmt = @ + 1]
    /\ UNCHANGED <<pc, parsed, nodes, counts, files, contents, platform,
                   exit_code, edsvars, prior, runner, testdts,
                   dts_content>>

\* The end of a test function: return true.
ReturnTrue ==
    /\ harness.pc = "case"
    /\ harness.test <= Len(runner)
    /\ harness.stmt > Len(runner[harness.test])
    /\ harness' = [harness EXCEPT !.pc = "tap", !.result = TRUE]
    /\ UNCHANGED <<pc, parsed, nodes, counts, files, contents, platform,
                   exit_code, edsvars, prior, runner, testdts,
                   dts_content>>

\* tap_result(passed, ...): tests_run++, then tests_passed++ or
\* tests_failed++; main goes on to its next tap_result line.
TapResult ==
    /\ harness.pc = "tap"
    /\ harness' =
          [harness EXCEPT
              !.tests_run = @ + 1,
              !.tests_passed = IF harness.result THEN @ + 1 ELSE @,
              !.tests_failed = IF harness.result THEN @ ELSE @ + 1,
              !.executed = Append(@, harness.test),
              !.test = @ + 1,
              !.stmt = 1,
              !.pc = "case"]
    /\ UNCHANGED <<pc, parsed, nodes, counts, files, contents, platform,
                   exit_code, edsvars, prior, runner, testdts,
                   dts_content>>

\* main: lq_hil_cleanup(); the summary; return tests_failed > 0 ? 1 : 0
HarnessExit ==
    /\ harness.pc = "case"
    /\ harness.test > Len(runner)
    /\ harness' = [harness EXCEPT
                      !.pc = "exit",
                      !.status = IF harness.tests_failed > 0 THEN 1 ELSE 0]
    /\ UNCHANGED <<pc, parsed, nodes, counts, files, contents, platform,
                   exit_code, edsvars, prior, runner, testdts,
                   dts_content>>

RunHarness ==
    \/ HarnessInit
    \/ RunStatement
    \/ ReturnTrue
    \/ TapResult
    \/ HarnessExit

NextHarness ==
    \/ NoTestsFound
    \/ AuthorCase
    \/ GenerateTestRunner
    \/ HarnessStart
    \/ RunHarness

SpecHarness == Init /\ [][NextHarness]_vars

\* Every call the harness makes returns (the lq_hil_tester_wait_* calls
\* take a timeout, usleep ends), so a started harness keeps stepping.
SpecHarnessLive == SpecHarness /\ WF_vars(RunHarness)

(***************************************************************************)
(* generate_comprehensive_hil_tests.py: the second derivation, from the    *)
(* nodes of the application description.  Its pids list holds the nodes    *)
(* whose type name contains 'lq-pid'; no type name of this model does, so  *)
(* the list is empty and _test_pid is not called.                          *)
(***************************************************************************)
InjectAdcDelayed == Step("inject-adc", {"channel", "value", "delay-ms"})

ExpectCanPgnAction == Step("expect-can-pgn", {"pgn", "timeout-ms"})

InjectMultiAdc ==
    Step("inject-multi-adc", {"channels", "values", "delay-ms"})

\* _test_merge_scenarios: agree, within-tolerance, fault, stale
MergeScenarios ==
    <<[steps |-> <<InjectMultiAdc>>],
      [steps |-> <<InjectMultiAdc>>],
      [steps |-> <<InjectMultiAdc>>],
      [steps |-> <<InjectAdc, Step("delay", {"delay-ms"}), InjectAdc>>]>>

\* ComprehensiveTestGenerator.generate_tests
ComprehensiveTests(ns) ==
    LET hw_inputs == NodesWith(ns, {"hw-adc-input", "hw-spi-input"})
        merges == NodesWith(ns, {"mid-merge"})
        fault_monitors == NodesWith(ns, {"fault-monitor"})
        cyclic_outputs == NodesWith(ns, {"cyclic-output"})
        per_input == [steps |-> [i \in DOMAIN hw_inputs |-> InjectAdc]]
    IN  <<[steps |-> [i \in 1..(3 * Len(hw_inputs)) |-> InjectAdcDelayed]
                     \o [i \in DOMAIN cyclic_outputs |-> ExpectCanPgnAction]]>>
        \o [i \in DOMAIN hw_inputs |->
                [steps |-> <<InjectAdc, InjectAdc, InjectAdc>>]]
        \o [i \in 1..(4 * Len(merges)) |-> MergeScenarios[((i - 1) % 4) + 1]]
        \o [i \in 1..(2 * Len(fault_monitors)) |-> [steps |-> <<InjectAdc>>]]
        \o [i \in DOMAIN cyclic_outputs |->
                [steps |-> <<InjectAdc, ExpectCanPgnAction, ExpectCanPgnAction>>]]
        \o <<per_input, per_input>>
        \o <<[steps |-> <<Step("measure-latency", {"max-latency-us"})>>]>>

\* main of generate_comprehensive_hil_tests.py, run on the application
\* description.
GenerateComprehensiveTests ==
    /\ pc = "parse"
    /\ testdts' = ComprehensiveTests(nodes)
    /\ files' = files \cup {"comprehensive_hil_tests.dts"}
    /\ pc' = "tests"
    /\ UNCHANGED <<parsed, nodes, counts, contents, platform, exit_code,
                   sidevars>>

MaxHilNodes == 3

HilShapes ==
    {Shape("lq,hw-adc-input", NoProps), Shape("lq,hw-can-input", NoProps),
     Shape("lq,mid-merge", NoProps), Shape("lq,fault-monitor", NoProps),
     Shape("lq,cyclic-output", NoProps)}
    \cup {Shape("lq,cyclic-output", OneProp("output_type", TypeV(t))) :
            t \in {3, 4, 8}}

ParseHilNode == ParseNode(HilShapes, MaxHilNodes)

NextTests ==
    \/ ReadInput
    \/ ParseHilNode
    \/ Resolve
    \/ CalculateResourceCounts
    \/ GenerateConfigHeader
    \/ GenerateHeader
    \/ GenerateSource
    \/ GenerateHilTests
    \/ GenerateMain
    \/ GeneratePlatformHw
    \/ GenerateComprehensiveTests
    \/ AuthorCase
    \/ GenerateTestRunner

SpecTests == Init /\ [][NextTests]_vars

NextText ==
    \/ WriteToken
    \/ ParseText
    \/ ResolveText
    \/ CalculateResourceCounts
    \/ GenerateConfigHeader

SpecText == Init /\ [][NextText]_vars

(***************************************************************************)
(* The artifacts of descriptions that mix the hardware-input type strings, *)
(* a generic input on a CAN device and the output protocol families.       *)
(***************************************************************************)
MaxArtifactNodes == 2

ArtifactShapes ==
    {Shape(c, NoProps) :
        c \in {"lq,hw-adc-input", "lq,hw-spi-input", "lq,hw-gpio-input",
               "lq,hw-spi-adc-input", "lq,cyclic-output"}}
    \cup {Shape("lq,input", OneProp("device", NameV(2)))}
    \cup {Shape("lq,cyclic-output", OneProp("output_type", TypeV(t))) :
            t \in DOMAIN OutputTypes}

ParseArtifactNode == ParseNode(ArtifactShapes, MaxArtifactNodes)

NextArtifacts ==
    \/ ReadInput
    \/ ParseArtifactNode
    \/ Resolve
    \/ CalculateResourceCounts
    \/ GenerateConfigHeader
    \/ GenerateHeader
    \/ GenerateSource

SpecArtifacts == Init /\ [][NextArtifacts]_vars

(***************************************************************************)
(* Properties of identity assignment and of the resource counts.           *)
(***************************************************************************)
Resolved == pc \notin {"start", "parse"} /\ ~(pc = "exit" /\ exit_code = 1)

HasProp(node, name) == name \in DOMAIN node.properties

IsFaultMonitor(node) == node.compatible = "lq,fault-monitor"

\* The node types that produce a signal.
IsProducer(node) ==
    \/ IsHwInput(node.compatible)
    \/ node.compatible \in ProcessingCompatibles
    \/ IsFaultMonitor(node)

\* The identity a producer holds: its signal_id, or for a fault monitor that
\* has none the identity of its fault output.
Identity(node) ==
    IF node.signal_id # None THEN node.signal_id
    ELSE IF HasProp(node, "fault_output_signal_id")
    THEN node.properties["fault_output_signal_id"].n
    ELSE None

\* A node, as parsed, that the assignment pass gives the next counter value.
AutoAssigned(node) ==
    /\ ~HasProp(node, "signal_id")
    /\ \/ IsHwInput(node.compatible)
       \/ node.compatible \in ProcessingCompatibles
       \/ IsFaultMonitor(node) /\ ~HasProp(node, "fault_output_signal_id")

\* C1: after resolution no two signal-producing nodes hold the same signal
\* identity.
C1_SignalIdsUnique ==
    Resolved =>
        \A i, j \in DOMAIN nodes :
            (i # j /\ IsProducer(nodes[i]) /\ IsProducer(nodes[j]))
                => Identity(nodes[i]) # Identity(nodes[j])

\* C4: a node with an explicit signal-id keeps exactly that identity, and
\* every identity auto-assigned to a node declared after it is strictly
\* greater.
C4_ExplicitIdKept ==
    Resolved =>
        \A i \in DOMAIN parsed :
            HasProp(parsed[i], "signal_id") =>
                /\ nodes[i].signal_id = parsed[i].properties["signal_id"].n
                /\ nodes[i].properties["signal_id"] = parsed[i].properties["signal_id"]
                /\ \A j \in DOMAIN parsed :
                       (j > i /\ AutoAssigned(parsed[j]))
                           => nodes[j].signal_id > nodes[i].signal_id

C4_Witness ==
    /\ pc = "resolved"
    /\ \E i, j \in DOMAIN parsed :
          /\ i < j
          /\ HasProp(parsed[i], "signal_id")
          /\ parsed[i].properties["signal_id"].n = MaxExplicitId
          /\ AutoAssigned(parsed[j])
          /\ nodes[j].signal_id = MaxExplicitId + 1

AutoRank(ns, j) == Cardinality({i \in 1 .. j : AutoAssigned(ns[i])})

NoExplicitIdentity(ns) ==
    \A i \in DOMAIN ns :
        ~HasProp(ns[i], "signal_id") /\ ~HasProp(ns[i], "fault_output_signal_id")

IdentitiesInUse(ns) ==
    {ns[i].signal_id : i \in {j \in DOMAIN ns : ns[j].signal_id # None}}
    \cup {ns[i].properties["output_signal_id"].n :
            i \in {j \in DOMAIN ns : HasProp(ns[j], "output_signal_id")}}
    \cup {ns[i].properties["fault_output_signal_id"].n :
            i \in {j \in DOMAIN ns : HasProp(ns[j], "fault_output_signal_id")}}

\* C6: the signal count of calculate_resource_counts is one plus the
\* maximum signal identity assigned to any node of any category.
C6_SignalCountIsMaxPlusOne ==
    (pc = "counted" /\ IdentitiesInUse(nodes) # {})
        => counts.num_signals = SetMax(IdentitiesInUse(nodes)) + 1

C6_Witness ==
    /\ pc = "counted"
    /\ Len(nodes) = 3
    /\ nodes[3].compatible = "lq,mid-merge"
    /\ nodes[3].signal_id = 2
    /\ counts.num_signals = 3

CountOfTypes(ns, types) ==
    Cardinality({i \in DOMAIN ns : ns[i].compatible \in types})

\* C7: every per-category count equals the number of nodes of that declared
\* type in the collection.
C7_CategoryCountsExact ==
    pc = "counted" =>
        /\ counts.num_hw_inputs = CountOfTypes(nodes, HwCompatibles)
        /\ counts.num_scales = CountOfTypes(nodes, {"lq,scale", "lq-scale"})
        /\ counts.num_remaps = CountOfTypes(nodes, {"lq,remap"})
        /\ counts.num_merges = CountOfTypes(nodes, {"lq,mid-merge"})
        /\ counts.num_fault_monitors = CountOfTypes(nodes, {"lq,fault-monitor"})
        /\ counts.num_cyclic_outputs = CountOfTypes(nodes, {"lq,cyclic-output"})
        /\ counts.num_pid_controllers
               = CountOfTypes(nodes, {"lq,pid", "lq,pid-controller"})
        /\ counts.num_verified_outputs
               = CountOfTypes(nodes, {"lq,verified-output"})

C7_Witness ==
    /\ pc = "counted"
    /\ counts.num_pid_controllers = 2
    /\ counts.num_verified_outputs = 1
    /\ \E i \in DOMAIN nodes : nodes[i].compatible = "lq,pid"

\* C9: max_output_events = max(2 * number of cyclic-output nodes, 16).
C9_MaxOutputEvents ==
    pc = "counted" =>
        LET n == CountOfTypes(nodes, {"lq,cyclic-output"})
        IN  /\ counts.max_output_events >= 16
            /\ counts.max_output_events >= 2 * n
            /\ counts.max_output_events \in {16, 2 * n}

C9_Witness ==
    /\ pc = "counted"
    /\ CountOfTypes(nodes, {"lq,cyclic-output"}) = 9
    /\ counts.max_output_events = 18

(***************************************************************************)
(* Properties of reference resolution.                                     *)
(***************************************************************************)
\* The reference a parsed node writes for one property pair: under the
\* unified name if present, else under the legacy (canonical) name.
HasRef(node, unified, canonical) ==
    HasProp(node, unified) \/ HasProp(node, canonical)

WrittenRef(node, unified, canonical) ==
    IF HasProp(node, unified) THEN node.properties[unified]
    ELSE node.properties[canonical]

NodeIndexOf(l) == CHOOSE t \in DOMAIN nodes : nodes[t].label = l

\* The label is declared and the assignment pass gave its node an identity.
HasIdentifiedTarget(l) ==
    /\ l \in LabelsOf(nodes)
    /\ nodes[NodeIndexOf(l)].signal_id # None

SinglePairs ==
    {<<"source", "source_signal">>, <<"input", "input_signal">>,
     <<"output", "output_signal">>}

WrittenList(node) ==
    LET v == WrittenRef(node, "sources", "input_signal_ids")
    IN  IF v.k = "list" THEN v.items ELSE <<[k |-> v.k, n |-> v.n]>>

\* C2: after resolution the identity stored in the canonical property
\* (source_signal, input_signal_ids, input_signal, output_signal) equals the
\* identity the assignment pass gave to the node carrying the referenced
\* label, for references written in the short or the legacy form.
C2_ReferenceSoundness ==
    Resolved =>
        \A i \in DOMAIN parsed :
            /\ \A pair \in SinglePairs :
                  (/\ HasRef(parsed[i], pair[1], pair[2])
                   /\ WrittenRef(parsed[i], pair[1], pair[2]).k = "str"
                   /\ HasIdentifiedTarget(WrittenRef(parsed[i], pair[1], pair[2]).n))
                  => nodes[i].properties[pair[2]]
                        = IntV(nodes[NodeIndexOf(
                                 WrittenRef(parsed[i], pair[1], pair[2]).n)].signal_id)
            /\ (/\ HasRef(parsed[i], "sources", "input_signal_ids")
                /\ \A j \in DOMAIN WrittenList(parsed[i]) :
                      /\ WrittenList(parsed[i])[j].k = "str"
                      /\ HasIdentifiedTarget(WrittenList(parsed[i])[j].n))
               => nodes[i].properties["input_signal_ids"]
                     = ListV([j \in DOMAIN WrittenList(parsed[i]) |->
                                IntE(nodes[NodeIndexOf(
                                       WrittenList(parsed[i])[j].n)].signal_id)])

C2_Witness ==
    /\ pc = "resolved"
    /\ Len(nodes) = 2
    /\ nodes[1].signal_id = MaxExplicitId
    /\ parsed[2].compatible = "lq,mid-merge"
    /\ HasProp(parsed[2], "sources")
    /\ parsed[2].properties["sources"] = ListV(<<StrE(2), StrE(1)>>)
    /\ nodes[2].properties["input_signal_ids"]
          = ListV(<<IntE(MaxExplicitId + 1), IntE(MaxExplicitId)>>)

RefProps ==
    {"source", "source_signal", "sources", "input_signal_ids", "input",
     "input_signal", "output", "output_signal"}

RefItems(v) == IF v.k = "list" THEN v.items ELSE <<[k |-> v.k, n |-> v.n]>>

\* Some reference property of some node names a label no node declares.
HasDanglingReference(ns) ==
    \E i \in DOMAIN ns : \E p \in RefProps \cap DOMAIN ns[i].properties :
        \E j \in DOMAIN RefItems(ns[i].properties[p]) :
            /\ RefItems(ns[i].properties[p])[j].k = "str"
            /\ RefItems(ns[i].properties[p])[j].n \notin LabelsOf(ns)

\* C3: when a reference names an undeclared label the run is a fatal
\* resolution error: no artifact file is written and the exit code is
\* nonzero.
C3_DanglingReferenceIsFatal ==
    HasDanglingReference(parsed) =>
        /\ files = {}
        /\ pc = "exit" => exit_code # 0

\* C8: max_merge_inputs is the length of the input reference list of the
\* merge block with the longest such list, 0 without a merge block.
C8_MaxMergeInputsIsLongestList ==
    pc = "counted" =>
        counts.max_merge_inputs
            = SetMax({IF HasRef(parsed[i], "sources", "input_signal_ids")
                      THEN Len(WrittenList(parsed[i])) ELSE 0 :
                        i \in {j \in DOMAIN parsed :
                                 parsed[j].compatible = "lq,mid-merge"}})

\* The same description with every reference written in the other form.
OtherName(p) ==
    CASE p = "source" -> "source_signal"
      [] p = "source_signal" -> "source"
      [] p = "sources" -> "input_signal_ids"
      [] p = "input_signal_ids" -> "sources"
      [] p = "input" -> "input_signal"
      [] p = "input_signal" -> "input"
      [] p = "output" -> "output_signal"
      [] p = "output_signal" -> "output"
      [] OTHER -> p

OtherForm(ns) ==
    [i \in DOMAIN ns |->
        [ns[i] EXCEPT !.properties =
            [q \in {OtherName(p) : p \in DOMAIN ns[i].properties} |->
                ns[i].properties[OtherName(q)]]]]

\* C10: a reference written with the short name and the same reference
\* written with the legacy long name resolve to the same identity under the
\* same canonical property name.
C10_ShortAndLegacyFormsAgree ==
    pc = "resolved" =>
        LET other == resolve_phandles_and_assign_ids(OtherForm(parsed))
        IN  \A i \in DOMAIN parsed :
                /\ \A pair \in SinglePairs :
                      (/\ HasRef(parsed[i], pair[1], pair[2])
                       /\ WrittenRef(parsed[i], pair[1], pair[2]).k = "str"
                       /\ HasIdentifiedTarget(
                              WrittenRef(parsed[i], pair[1], pair[2]).n))
                      => /\ HasProp(other[i], pair[2])
                         /\ HasProp(nodes[i], pair[2])
                         /\ other[i].properties[pair[2]].k = "int"
                         /\ other[i].properties[pair[2]]
                                = nodes[i].properties[pair[2]]
                /\ HasRef(parsed[i], "sources", "input_signal_ids")
                      => /\ HasProp(other[i], "input_signal_ids")
                         /\ other[i].properties["input_signal_ids"]
                                = nodes[i].properties["input_signal_ids"]

C10_Witness ==
    /\ pc = "resolved"
    /\ Len(nodes) = 2
    /\ nodes[1].signal_id = MaxExplicitId
    /\ HasProp(parsed[2], "input_signal")
    /\ parsed[2].properties["input_signal"] = StrV(1)
    /\ nodes[2].properties["input_signal"] = IntV(MaxExplicitId)

(***************************************************************************)
(* Properties of the generated initializer.                                *)
(***************************************************************************)
\* The position in ns of the k-th node of the given types.
IndexOfKth(ns, types, k) ==
    CHOOSE i \in DOMAIN ns :
        /\ ns[i].compatible \in types
        /\ Cardinality({j \in 1 .. i : ns[j].compatible \in types}) = k

\* The node writes this reference pair as one label whose node holds an
\* identity.
RefersToIdentified(node, unified, canonical) ==
    /\ HasRef(node, unified, canonical)
    /\ WrittenRef(node, unified, canonical).k = "str"
    /\ HasIdentifiedTarget(WrittenRef(node, unified, canonical).n)

IdentityOfTarget(node, unified, canonical) ==
    nodes[NodeIndexOf(WrittenRef(node, unified, canonical).n)].signal_id

\* C11: in the generated initializer every cyclic-output entry's source
\* signal is the identity of the producer the output references by label and
\* its period is the node's period (default 100000); every fault-monitor
\* entry's input signal is the identity of the monitored node.
C11_EntriesCarryResolvedSignals ==
    pc = "source" =>
        /\ \A k \in DOMAIN contents.source.cyclic_outputs :
              LET i == IndexOfKth(nodes, {"lq,cyclic-output"}, k)
                  entry == contents.source.cyclic_outputs[k]
              IN  /\ entry.period_us
                        = Get(parsed[i].properties, "period_us",
                              IntV(DefaultPeriodUs))
                  /\ RefersToIdentified(parsed[i], "source", "source_signal")
                        => entry.source_signal
                              = IntV(IdentityOfTarget(parsed[i], "source",
                                                      "source_signal"))
        /\ \A k \in DOMAIN contents.source.fault_monitors :
              LET i == IndexOfKth(nodes, {"lq,fault-monitor"}, k)
                  entry == contents.source.fault_monitors[k]
              IN  RefersToIdentified(parsed[i], "input", "input_signal")
                      => entry.input_signal
                            = IntV(IdentityOfTarget(parsed[i], "input",
                                                    "input_signal"))

AllRefsIdentified(node) ==
    /\ HasRef(node, "sources", "input_signal_ids")
    /\ \A j \in DOMAIN WrittenList(node) :
          /\ WrittenList(node)[j].k = "str"
          /\ HasIdentifiedTarget(WrittenList(node)[j].n)

\* C12: a merge node that references n upstream nodes by label gets a merge
\* entry with num_inputs = n and input_signals equal to the identities
\* assigned to those nodes, in the order the references are written.
C12_MergeEntryListsInputs ==
    pc = "source" =>
        \A k \in DOMAIN contents.source.merges :
            LET i == IndexOfKth(nodes, {"lq,mid-merge"}, k)
                entry == contents.source.merges[k]
                refs == WrittenList(parsed[i])
            IN  AllRefsIdentified(parsed[i]) =>
                    /\ entry.num_inputs = Len(refs)
                    /\ entry.input_signals
                          = [j \in DOMAIN refs |->
                                IntE(nodes[NodeIndexOf(refs[j].n)].signal_id)]

C12_Witness ==
    /\ pc = "source"
    /\ Len(nodes) = 3
    /\ nodes[1].signal_id = MaxExplicitId
    /\ nodes[2].signal_id = MaxExplicitId + 1
    /\ parsed[3].properties = OneProp("sources", ListV(<<StrE(2), StrE(1)>>))
    /\ contents.source.merges
          = <<[output_signal |-> MaxExplicitId + 2,
               input_signals |-> <<IntE(MaxExplicitId + 1), IntE(MaxExplicitId)>>,
               num_inputs |-> 2]>>

(***************************************************************************)
(* Properties of the backend-generation stage.                             *)
(***************************************************************************)
\* --platform was given and names no backend variant.
UnknownPlatform(option) ==
    option # NoPlatform /\ get_platform_adaptor(option) = NoPlatform

\* C17: when --platform names a target outside the closed set of backend
\* variants, no platform backend source is written and the process exits
\* with a nonzero code.
C17_UnknownPlatformExitsNonzero ==
    (pc = "exit" /\ UnknownPlatform(platform)) =>
        /\ "lq_platform_hw.c" \notin files
        /\ exit_code # 0

CoreArtifacts == {"lq_config.h", "lq_generated.h", "lq_generated.c"}

\* C18: an unknown-platform failure in the backend stage leaves the resource
\* header, the declaration header and the initializer source on disk with
\* the content they had before the stage ran.
C18_CoreArtifactsSurviveFailure ==
    [][(pc = "main" /\ pc' = "exit" /\ UnknownPlatform(platform')) =>
          /\ CoreArtifacts \subseteq files
          /\ CoreArtifacts \subseteq files'
          /\ contents'.config = contents.config
          /\ contents'.header = contents.header
          /\ contents'.source = contents.source]_vars

C18_Witness ==
    /\ pc = "exit"
    /\ platform = "unknown-target"
    /\ CoreArtifacts \subseteq files
    /\ "lq_platform_hw.c" \notin files
    /\ Len(contents.source.cyclic_outputs) = 1
    /\ Len(contents.header) = 1
    /\ contents.config.num_hw_inputs = 1

\* C19: a platform name is accepted by get_platform_adaptor and yields a
\* platform backend source exactly when the usage text and the --platform
\* help advertise it.
C19_AdvertisedPlatformsAccepted ==
    (pc = "exit" /\ platform # NoPlatform) =>
        (Lower(platform) \in AdvertisedPlatforms
            <=> "lq_platform_hw.c" \in files)

\* C20: every interrupt wrapper a backend variant emits for a hardware-input
\* node pushes through lq_hw_push with exactly the identity resolution
\* assigned to that node.
C20_WrapperPushesAssignedIdentity ==
    (pc = "exit" /\ "lq_platform_hw.c" \in files) =>
        \A k \in DOMAIN contents.platform :
            LET wrapper == contents.platform[k]
            IN  /\ wrapper.entry = "lq_hw_push"
                /\ wrapper.push = IntV(nodes[NodeIndexOf(wrapper.label)].signal_id)

(***************************************************************************)
(* Properties of the object-dictionary import.                             *)
(***************************************************************************)
CanopenNodes == {i \in DOMAIN expanded : expanded[i].kind = "canopen"}

\* The signal identities of the mapping entries of a list of PDOs, in the
\* order they are emitted.
RECURSIVE MappingIds(_, _)
MappingIds(pdos, j) ==
    IF j > Len(pdos) THEN <<>>
    ELSE [m \in DOMAIN pdos[j].mappings |-> pdos[j].mappings[m].signal_id]
            \o MappingIds(pdos, j + 1)

IdSet(pdos) == {MappingIds(pdos, 1)[x] : x \in DOMAIN MappingIds(pdos, 1)}

\* C13: after import no transmit-mapping identity equals a receive-mapping
\* identity; receive identities are counted from 0 and transmit identities
\* from 100.
C13_PdoRangesDisjoint ==
    \A i \in CanopenNodes :
        /\ IdSet(expanded[i].tpdos) \cap IdSet(expanded[i].rpdos) = {}
        /\ \A id \in IdSet(expanded[i].tpdos) : id >= TpdoSignalBase
        /\ \A id \in IdSet(expanded[i].rpdos) : id >= RpdoSignalBase

\* The slot number (0..3) of the j-th non-empty mapping list.
SlotOfPdo(mappings_by_slot, j) ==
    (CHOOSE k \in 1 .. NumPdoSlots :
        /\ mappings_by_slot[k] # <<>>
        /\ Cardinality({q \in 1 .. k : mappings_by_slot[q] # <<>>}) = j) - 1

\* C14: when the consuming node overrides node-id, every emitted PDO has
\* cob-id 0x180 + 0x100*k + nodeId (transmit) or 0x200 + 0x100*k + nodeId
\* (receive), k being the PDO's slot in the object dictionary, also when
\* lower-numbered slots are empty.
C14_CobIdUsesSlotNumber ==
    \A i \in CanopenNodes :
        description[i].node_id # None =>
            LET device == parse_eds(description[i].eds)
                node_id == description[i].node_id
            IN  /\ expanded[i].node_id = node_id
                /\ \A j \in DOMAIN expanded[i].tpdos :
                      expanded[i].tpdos[j].cob_id
                          = TpdoCobBase
                            + CobSlotStride * SlotOfPdo(device.tpdo_mappings, j)
                            + node_id
                /\ \A j \in DOMAIN expanded[i].rpdos :
                      expanded[i].rpdos[j].cob_id
                          = RpdoCobBase
                            + CobSlotStride * SlotOfPdo(device.rpdo_mappings, j)
                            + node_id

\* C15: the i-th transmit mapping entry encountered (in slot, then mapping
\* order) gets identity 100 + i and the i-th receive mapping entry 0 + i,
\* counting from 0.
C15_IdsInEncounterOrder ==
    \A i \in CanopenNodes :
        /\ \A x \in DOMAIN MappingIds(expanded[i].tpdos, 1) :
              MappingIds(expanded[i].tpdos, 1)[x] = TpdoSignalBase + (x - 1)
        /\ \A x \in DOMAIN MappingIds(expanded[i].rpdos, 1) :
              MappingIds(expanded[i].rpdos, 1)[x] = RpdoSignalBase + (x - 1)

InWarnings(label) == \E w \in DOMAIN warnings : warnings[w] = label

\* C16: a stub whose object-dictionary file does not exist is warned about
\* and left unchanged in the expanded description, the other stubs are
\* still expanded, and the run completes with exit code 0.
C16_MissingFileLeavesStub ==
    /\ Len(expanded) = Len(description)
    /\ \A i \in DOMAIN description :
          /\ description[i].eds = MissingFile
                => expanded[i] = description[i] /\ InWarnings(description[i].label)
          /\ description[i].eds.exists
                => /\ expanded[i].kind = "canopen"
                   /\ expanded[i].label = description[i].label
                   /\ ~InWarnings(description[i].label)
    /\ (pc = "exit" /\ exit_code # 1)
          => exit_code = 0 /\ "expanded.dts" \in files

C16_Witness ==
    /\ pc = "exit"
    /\ exit_code = 0
    /\ "expanded.dts" \in files
    /\ Len(description) = 2
    /\ description[1].eds = MissingFile
    /\ description[2].eds.exists
    /\ expanded[1] = description[1]
    /\ expanded[2].kind = "canopen"
    /\ Len(expanded[2].tpdos) = 2
    /\ warnings = <<1>>

(***************************************************************************)
(* Peripheral bring-up (generate_peripheral_init).                         *)
(***************************************************************************)
\* The families of the hardware-input nodes handed to the backend stage.
FamiliesPresent ==
    {family \in PeripheralFamilies :
        \E i \in DOMAIN nodes : nodes[i].compatible = FamilyType(family)}

\* C21: in every run that wrote lq_platform_hw.c, the peripheral
\* initialisation holds a configuration block only for a family of which the
\* node collection holds at least one hardware input.
C21_NoBlockForAbsentFamily ==
    ("lq_platform_hw.c" \in files) => contents.init \subseteq FamiliesPresent

(***************************************************************************)
(* Determinism of the compile.                                             *)
(***************************************************************************)
\* The labels of a sequence of emitted items rise: the items follow the
\* declaration order of their nodes.
InDeclarationOrder(items) ==
    \A i, j \in DOMAIN items : i < j => items[i].label < items[j].label

HarnessInitialised == harness.pc \in {"case", "tap"} \/ harness.test > 0

\* The test cases tap_result has reported so far are the first ones, once
\* each and in declaration order.
ExecutedInOrder ==
    /\ Len(harness.executed) <= Len(runner)
    /\ \A i \in DOMAIN harness.executed : harness.executed[i] = i

HarnessTally ==
    /\ harness.tests_run = harness.tests_passed + harness.tests_failed
    /\ harness.tests_run = Len(harness.executed)

\* The statement of C23 as written: at every exit of the harness all
\* declared cases were run and the status is nonzero exactly when one
\* failed.
C23_TallyAtEveryExit ==
    harness.pc = "exit" =>
        /\ harness.tests_run = Len(testdts)
        /\ (harness.status # 0) <=> (harness.tests_failed > 0)

\* C23, amended: in a harness that got past its start-up, the cases are
\* reported once each in declaration order whatever the earlier outcomes,
\* the tally adds up, at exit tests_run is the number of declared cases and
\* the status is nonzero exactly when a case failed; and such a harness
\* does reach its exit.
C23_EveryCaseRunsOnce ==
    /\ [](HarnessInitialised =>
            /\ ExecutedInOrder
            /\ HarnessTally
            /\ harness.pc = "exit" =>
                  /\ harness.tests_run = Len(testdts)
                  /\ harness.executed = [i \in 1..Len(testdts) |-> i]
                  /\ (harness.status # 0) <=> (harness.tests_failed > 0))
    /\ (harness.pc = "case") ~> (harness.pc = "exit")

\* A harness of two cases has exited after its first case failed at a step
\* and its second passed.
C23_Witness ==
    /\ harness.pc = "exit"
    /\ Len(testdts) = 2
    /\ Len(runner[1]) = 2
    /\ harness.executed = <<1, 2>>
    /\ harness.tests_failed = 1
    /\ harness.tests_passed = 1
    /\ harness.status = 1

(***************************************************************************)
(* The compile of a test topology into the harness.                        *)
(***************************************************************************)
\* The statements of test function t emitted for step i of test case t.
StatementsOf(t, i) ==
    {k \in DOMAIN runner[t] : runner[t][k].step = i}

\* C24: in every compiled harness, each step of each test case of the
\* description has exactly one statement, and that statement reads every
\* property the step carries.
C24_EveryStepTranslated ==
    pc = "runner" =>
        \A t \in DOMAIN testdts :
            \A i \in DOMAIN testdts[t].steps :
                /\ Cardinality(StatementsOf(t, i)) = 1
                /\ \A k \in StatementsOf(t, i) :
                      runner[t][k].reads = testdts[t].steps[i].props

(***************************************************************************)
(* Malformed input text.                                                   *)
(***************************************************************************)
\* The nesting depth after the first n tokens; the root node's brace is
\* open at the start.
Depth(n) ==
    1 + Cardinality({i \in 1..n : dts_content[i].open})
      - Cardinality({i \in 1..n : ~dts_content[i].open})

\* A closing brace with nothing open, or a brace left open at the end.
MalformedNesting ==
    \/ \E n \in 1..Len(dts_content) : Depth(n) < 0
    \/ Depth(Len(dts_content)) # 0

\* C25: once a text with malformed brace nesting has been parsed, the run
\* has ended with an error and holds no node.
C25_MalformedNestingIsAParseError ==
    (pc # "start" /\ MalformedNesting) =>
        /\ pc = "exit"
        /\ exit_code \notin {None, 0}
        /\ nodes = <<>>

(***************************************************************************)
(* The node collection after resolution.                                   *)
(***************************************************************************)
\* The stages of main that run after resolve_phandles_and_assign_ids.
AfterResolution ==
    pc \in {"resolved", "counted", "config", "header", "source", "hil", "main"}

\* C26: no step taken after resolution changes the node collection: the
\* type, identity and properties of every node stay as the resolver left
\* them.
C26_NodesFrozenAfterResolution ==
    [][AfterResolution => nodes' = nodes]_vars

(***************************************************************************)
(* The two signal counts of one run.                                       *)
(***************************************************************************)
\* C27: once the resource header and the initializer are both written, the
\* .num_signals of the initializer equals the LQ_MAX_SIGNALS of the header.
C27_SignalCountsAgree ==
    {"lq_config.h", "lq_generated.c"} \subseteq files =>
        contents.source.num_signals = contents.config.num_signals

(***************************************************************************)
(* Interrupt handlers: declarations against definitions.                   *)
(***************************************************************************)
\* The handler names of a sequence of declarations or definitions: the
\* family prefix (lq_adc_isr_, lq_spi_isr_) and the node label.
HandlerNames(items) ==
    {<<items[i].kind, items[i].label>> : i \in DOMAIN items}

\* C28: once the declaration header and the initializer source are both
\* written, the handlers the header declares are the handlers the source
\* defines.
C28_DeclaredHandlersAreDefined ==
    {"lq_generated.h", "lq_generated.c"} \subseteq files =>
        HandlerNames(contents.header) = HandlerNames(contents.source.isrs)

(***************************************************************************)
(* Generic inputs on a CAN device.                                         *)
(***************************************************************************)
\* The nodes generate_source turned from lq,input into a CAN hardware input:
\* they carry the device they were declared with and the device index the
\* normalisation derived from it.
NormalizedInputs ==
    {i \in DOMAIN nodes :
        /\ nodes[i].compatible = "lq,hw-can-input"
        /\ {"device", "device_index"} \subseteq DOMAIN nodes[i].properties}

\* The identity generated code uses for node i.
IdentityInCode(i) == Get(nodes[i].properties, "signal_id", IntV(0)).n

\* C29: once the initializer source is written, every generic input that was
\* normalised into a CAN hardware input has an identity of its own, is
\* counted in the hardware-input count of the resource header, and the
\* identity generated code uses for it is no other producer's identity.
C29_NormalizedInputIsAHardwareInput ==
    "lq_generated.c" \in files =>
        \A i \in NormalizedInputs :
            /\ nodes[i].signal_id # None
            /\ contents.config.num_hw_inputs
                    = Len(NodesOfType(nodes, HwCompatibles))
            /\ \A j \in DOMAIN nodes \ {i} :
                    nodes[j].signal_id # None
                        => nodes[j].signal_id # IdentityInCode(i)

(***************************************************************************)
(* Cyclic outputs: the type written in the entry against the dispatch      *)
(* cases.                                                                  *)
(***************************************************************************)
\* The cyclic-output nodes in the order of their entries.
CyclicOutputNodes == NodesOfType(nodes, {"lq,cyclic-output"})

\* C30: once the initializer source is written, the entry of a cyclic output
\* of a family that has a dispatch case carries the enumerator that case
\* matches, and no entry carries an undefined type.
C30_EntryTypeMatchesDispatchCase ==
    "lq_generated.c" \in files =>
        \A k \in DOMAIN contents.source.cyclic_outputs :
            LET family == OutputTypeOf(CyclicOutputNodes[k].properties)
                entry == contents.source.cyclic_outputs[k]
            IN  /\ entry.type # "None"
                /\ family \in DispatchFamilies =>
                        /\ entry.type = Enumerator(family)
                        /\ entry.type \in contents.source.dispatch

==============================================================================
